---- MODULE Spec2Model ----
(***************************************************************************)
(* A model of the APV250 extraction engine and of the three request        *)
(* handlers that run it (src/app.py).  Document text is a string; the      *)
(* regular expressions of extract_apv250_data are computed character by    *)
(* character, with Python's leftmost / greedy matching.                    *)
(***************************************************************************)
EXTENDS Integers, Sequences, FiniteSets, TLC

(***************************************************************************)
(* Characters and strings                                                  *)
(***************************************************************************)
\* s[a..b] clipped to the string, as Python's slices are.
Slice(s, a, b) ==
    LET lo == IF a < 1 THEN 1 ELSE a
        hi == IF b > Len(s) THEN Len(s) ELSE b
    IN  IF lo > hi THEN "" ELSE SubSeq(s, lo, hi)

\* The character at position i (from 1); "" outside the string.
Ch(s, i) == IF i >= 1 /\ i <= Len(s) THEN SubSeq(s, i, i) ELSE ""

Chars(s) == {Ch(s, i) : i \in 1..Len(s)}

UpperAlpha == "ABCDEFGHIJKLMNOPQRSTUVWXYZ"

LowerAlpha == "abcdefghijklmnopqrstuvwxyz"

UpperCase == Chars(UpperAlpha)

LowerCase == Chars(LowerAlpha)

Letters == UpperCase \cup LowerCase

Digits == Chars("0123456789")

\* \s of Python's re, restricted to the white space the documents hold.
WhiteSpace == {" ", "\n", "\t"}

UpperMap == [c \in LowerCase |->
               Ch(UpperAlpha, CHOOSE i \in 1..Len(LowerAlpha) : Ch(LowerAlpha, i) = c)]

LowerMap == [c \in UpperCase |->
               Ch(LowerAlpha, CHOOSE i \in 1..Len(UpperAlpha) : Ch(UpperAlpha, i) = c)]

ToUpper(c) == IF c \in LowerCase THEN UpperMap[c] ELSE c

ToLower(c) == IF c \in UpperCase THEN LowerMap[c] ELSE c

\* A character class under re.IGNORECASE.
IgnoreCase(C) == C \cup {ToUpper(c) : c \in C} \cup {ToLower(c) : c \in C}

Min(S) == CHOOSE x \in S : \A y \in S : x <= y

\* The least and the greatest position of S; 0 when S is empty.
Min0(S) == IF S = {} THEN 0 ELSE CHOOSE x \in S : \A y \in S : x <= y

Max0(S) == IF S = {} THEN 0 ELSE CHOOSE x \in S : \A y \in S : y <= x

Min2(a, b) == IF a <= b THEN a ELSE b

\* s[lo..hi] with every character c replaced by f[c] when c is in DOMAIN f.
RECURSIVE MapRange(_, _, _, _)
MapRange(s, lo, hi, f) ==
    IF lo > hi THEN ""
    ELSE IF lo = hi THEN (IF Ch(s, lo) \in DOMAIN f THEN f[Ch(s, lo)] ELSE Ch(s, lo))
    ELSE MapRange(s, lo, (lo + hi) \div 2, f) \o MapRange(s, (lo + hi) \div 2 + 1, hi, f)

MapStr(s, f) == MapRange(s, 1, Len(s), f)

\* str.upper()
Upper(s) == MapStr(s, UpperMap)

\* str.lower()
Lower(s) == MapStr(s, LowerMap)

\* str.replace(a, b) for a single character a.
Replace(s, a, b) == MapStr(s, a :> b)

\* re.sub(r'[C]', '', s)
RemoveChars(s, C) == MapStr(s, [c \in C |-> ""])

\* Every character of s[lo..hi] is in C (not in C when member is FALSE), and hi is in s.
AllIn(s, lo, hi, C, member) ==
    hi <= Len(s) /\ \A i \in lo..hi : (Ch(s, i) \in C) = member

RECURSIVE RunBy(_, _, _, _)
\* The number of consecutive characters of s from position p on that are in C (not
\* in C when member is FALSE), counted 256 at a time while the run lasts, then 16 at
\* a time, then one at a time.
RunBy(s, p, C, member) ==
    IF AllIn(s, p, p + 255, C, member) THEN 256 + RunBy(s, p + 256, C, member)
    ELSE IF AllIn(s, p, p + 15, C, member) THEN 16 + RunBy(s, p + 16, C, member)
    ELSE IF AllIn(s, p, p, C, member) THEN 1 + RunBy(s, p + 1, C, member)
    ELSE 0

\* The number of consecutive characters of class C in s from position p on.
RunLen(s, p, C) == RunBy(s, p, C, TRUE)

\* The same for the negated class [^C].
RunLenNot(s, p, C) == RunBy(s, p, C, FALSE)

\* str.strip()
Strip(s) ==
    Slice(s, RunLen(s, 1, WhiteSpace) + 1, Max0({i \in 1..Len(s) : Ch(s, i) \notin WhiteSpace}))

\* The literal lit stands in s at position p.
LitAt(s, p, lit) == Ch(s, p) = Ch(lit, 1) /\ Slice(s, p, p + Len(lit) - 1) = lit

\* The same under re.IGNORECASE.
LitAtI(s, p, lit) ==
    /\ p >= 1
    /\ p + Len(lit) - 1 <= Len(s)
    /\ ToUpper(Ch(s, p)) = ToUpper(Ch(lit, 1))
    /\ Upper(Slice(s, p, p + Len(lit) - 1)) = Upper(lit)

\* s contains lit (Python's `lit in s`).
Contains(s, lit) == \E p \in 1..Len(s) : LitAt(s, p, lit)

(***************************************************************************)
(* Matching: label, separators, one captured group                         *)
(***************************************************************************)
NoMatch == [found |-> FALSE, start |-> 0, stop |-> 0, group |-> ""]

\* The match of s[start..stop-1], which is also its group.
Span(s, start, stop) ==
    [found |-> TRUE, start |-> start, stop |-> stop, group |-> Slice(s, start, stop - 1)]

\* if m1: m1, else m2
FirstFound(m1, m2) == IF m1.found THEN m1 ELSE m2

\* Among the matches tried at every position, the leftmost one.
Leftmost(matches) ==
    IF \A m \in matches : ~m.found THEN NoMatch
    ELSE CHOOSE m \in matches : m.found /\ \A o \in matches : o.found => m.start <= o.start

\* The position after the label of labels that stands at p; 0 when none does.
LabelEnd(s, p, labels, ic) ==
    Max0({p + Len(lab) : lab \in {l \in labels : IF ic THEN LitAtI(s, p, l) ELSE LitAt(s, p, l)}})

\* The group (cap{capMin,capMax}) at position g, d characters of cap standing there.
GroupAt(s, p, g, d, capMin, capMax) ==
    IF d >= capMin
    THEN [found |-> TRUE, start |-> p, stop |-> g + Min2(d, capMax),
          group |-> Slice(s, g, g + Min2(d, capMax) - 1)]
    ELSE NoMatch

\* sep{sepMin,} at position q, n characters of sep standing there, then the group.
SepAt(s, p, q, n, sepMin, cap, capMin, capMax) ==
    IF q = 0 \/ n < sepMin THEN NoMatch
    ELSE GroupAt(s, p, q + n, RunLen(s, q + n, cap), capMin, capMax)

\* The label ends at q (0: no label at p): the separators from there on.
LabelledAt(s, p, q, sep, sepMin, cap, capMin, capMax) ==
    SepAt(s, p, q, RunLen(s, q, sep), sepMin, cap, capMin, capMax)

\* The pattern  label sep{sepMin,} (cap{capMin,capMax})  tried at position p:
\* the separator and capture classes are disjoint in every use, so the
\* greedy runs are the only way to match.
LabelAt(s, p, labels, ic, sep, sepMin, cap, capMin, capMax) ==
    LabelledAt(s, p, LabelEnd(s, p, labels, ic), sep, sepMin, cap, capMin, capMax)

\* re.search of that pattern: the leftmost position where it matches.
LabelSearch(s, labels, ic, sep, sepMin, cap, capMin, capMax) ==
    Leftmost({LabelAt(s, p, labels, ic, sep, sepMin, cap, capMin, capMax) : p \in 1..Len(s)})

\* [:\s]
ColonSpace == {":"} \cup WhiteSpace

\* No upper limit on a repetition.
Unbounded(s) == Len(s) + 1

\* A record with the one entry key -> value, or the empty record.
Entry(present, key, value) ==
    IF present THEN key :> value ELSE [k \in {} |-> ""]

Has(data, key) == key \in DOMAIN data

\* dict.get(key): the value, or nothing ("" stands for None, both falsy).
Get(data, key) == IF key \in DOMAIN data THEN data[key] ELSE ""

(***************************************************************************)
(* extract_apv250_data: the fields of the vehicle                          *)
(***************************************************************************)
\* Clean up OCR text: re.sub(r'[|\[\]{}]', '', text)
TextClean(text) == RemoveChars(text, {"|", "[", "]", "{", "}"})

\* The entry key -> group of a match, or no entry.
MatchEntry(match, key) == Entry(match.found, key, match.group)

\* The entry key -> group.upper() of a match, or no entry.
UpperEntry(match, key) == Entry(match.found, key, Upper(match.group))

\* A variant that captures seven digits only, (\d{7}): it cuts an eight-digit
\* number short.
RegistrationMatchSeven(text_clean) ==
    FirstFound(
        LabelSearch(text_clean, {"Registration Number"}, FALSE, ColonSpace, 1, Digits, 7, 7),
        LabelSearch(text_clean, {"Registration Number"}, FALSE, ColonSpace, 0, Digits, 7, 7))

\* r'Registration Number[:\s]+(\d{7,8})', then r'Registration Number[:\s]*(\d{7,8})'
RegistrationMatch(text_clean) ==
    FirstFound(
        LabelSearch(text_clean, {"Registration Number"}, FALSE, ColonSpace, 1, Digits, 7, 8),
        LabelSearch(text_clean, {"Registration Number"}, FALSE, ColonSpace, 0, Digits, 7, 8))

RegistrationNumber(text_clean) ==
    MatchEntry(RegistrationMatch(text_clean), "registration_number")

\* [A-HJ-NPR-Z0-9IOSl] under re.IGNORECASE
VinClass ==
    IgnoreCase(Chars("ABCDEFGH") \cup Chars("JKLMN") \cup {"P"} \cup Chars("RSTUVWXYZ")
               \cup Digits \cup {"I", "O", "S", "l"})

\* [A-Z0-9] under re.IGNORECASE
AlnumClass == IgnoreCase(UpperCase \cup Digits)

\* r'VIN[:\s]*([A-HJ-NPR-Z0-9IOSl]{17})', then r'VIN[:\s]*([A-Z0-9]{17})', both IGNORECASE
VinMatch(text_clean) ==
    FirstFound(LabelSearch(text_clean, {"VIN"}, TRUE, ColonSpace, 0, VinClass, 17, 17),
               LabelSearch(text_clean, {"VIN"}, TRUE, ColonSpace, 0, AlnumClass, 17, 17))

\* A variant whose third replace() writes the letter O, which the second one
\* would have turned into 0: applying it twice differs from applying it once.
FixVinToLetter(matched) ==
    Replace(Replace(Replace(Replace(Upper(matched), "I", "1"), "O", "0"), "S", "O"), "l", "1")

\* vin = match.group(1).upper(), then the four replace() calls in their order.
FixVin(matched) ==
    Replace(Replace(Replace(Replace(Upper(matched), "I", "1"), "O", "0"), "S", "5"), "l", "1")

\* data['vin'] = vin
VinEntry(match) == Entry(match.found, "vin", FixVin(match.group))

Vin(text_clean) == VinEntry(VinMatch(text_clean))

\* r'Year[:\s]*(\d{4})'
Year(text_clean) ==
    MatchEntry(LabelSearch(text_clean, {"Year"}, FALSE, ColonSpace, 0, Digits, 4, 4), "year")

make_fixes ==
    ("Cadlhae" :> "CADILLAC") @@ ("Cadllac" :> "CADILLAC") @@ ("Cadlllac" :> "CADILLAC") @@
    ("Chevroiet" :> "CHEVROLET") @@ ("Toyola" :> "TOYOTA") @@ ("Honds" :> "HONDA")

\* make_patterns, in order: r'Make[:\s]*([A-Za-z]+)', r'Make\s+([A-Za-z]+)',
\* r'[Mm]ake[:\s]*([A-Za-z]{3,})'
make_patterns ==
    << [labels |-> {"Make"}, sep |-> ColonSpace, sepMin |-> 0, capMin |-> 1],
       [labels |-> {"Make"}, sep |-> WhiteSpace, sepMin |-> 1, capMin |-> 1],
       [labels |-> {"Make", "make"}, sep |-> ColonSpace, sepMin |-> 0, capMin |-> 3] >>

\* re.search(pattern, text_clean)
MakeMatch(text_clean, pattern) ==
    LabelSearch(text_clean, pattern.labels, FALSE, pattern.sep, pattern.sepMin,
                Letters, pattern.capMin, Unbounded(text_clean))

\* make_fixes.get(make, make)
MakeFix(make) == IF make \in DOMAIN make_fixes THEN make_fixes[make] ELSE make

\* make = match.group(1).strip(); make = make_fixes.get(make, make).upper()
MakeOf(group) == Upper(MakeFix(Strip(group)))

RECURSIVE MakeFrom(_, _)
\* A variant that ends the loop at the first pattern that matches, whether its
\* make is stored or not.
MakeTryOnce(text_clean, i, found, make) ==
    IF found THEN Entry(Len(make) >= 2, "make", make)
    ELSE MakeFrom(text_clean, i + 1)

\* One pass of the loop: the make is stored when len(make) >= 2 and the loop
\* ends; otherwise the next pattern is tried.
MakeTry(text_clean, i, found, make) ==
    IF found /\ Len(make) >= 2 THEN Entry(TRUE, "make", make)
    ELSE MakeFrom(text_clean, i + 1)

\* The loop over make_patterns from pattern i on.
MakeFrom(text_clean, i) ==
    IF i > Len(make_patterns) THEN Entry(FALSE, "make", "")
    ELSE MakeTry(text_clean, i, MakeMatch(text_clean, make_patterns[i]).found,
                 MakeOf(MakeMatch(text_clean, make_patterns[i]).group))

Make(text_clean) == MakeFrom(text_clean, 1)

\* [A-Za-z0-9\-]
ModelClass == Letters \cup Digits \cup {"-"}

\* r'Model[:\s]*([A-Za-z0-9\-]+)'
Model(text_clean) ==
    UpperEntry(LabelSearch(text_clean, {"Model"}, FALSE, ColonSpace, 0,
                           ModelClass, 1, Unbounded(text_clean)), "model")

\* r'Colour[:\s]*([A-Za-z]+)'
Colour(text_clean) ==
    UpperEntry(LabelSearch(text_clean, {"Colour"}, FALSE, ColonSpace, 0, Letters, 1,
                           Unbounded(text_clean)), "colour")

fuel_codes ==
    ("GASOLINE" :> "G") @@ ("GAS" :> "G") @@ ("DIESEL" :> "D") @@ ("ELECTRIC" :> "E") @@
    ("HYBRID" :> "L") @@ ("PROPANE" :> "P") @@ ("NATURAL" :> "N")

\* A variant that stores fuel_type for the fuels of the table alone.
FuelOfListed(fuel) ==
    IF fuel \in DOMAIN fuel_codes
    THEN ("fuel_code" :> fuel_codes[fuel]) @@ ("fuel_type" :> fuel)
    ELSE "fuel_code" :> "G"

\* data['fuel_type'] = fuel; data['fuel_code'] = fuel_codes.get(fuel, 'G')
FuelOf(fuel) ==
    ("fuel_code" :> (IF fuel \in DOMAIN fuel_codes THEN fuel_codes[fuel] ELSE "G"))
    @@ ("fuel_type" :> fuel)

\* The entries of a match of the fuel pattern; else: data['fuel_code'] = 'G'.
FuelEntries(match) ==
    IF match.found THEN FuelOf(Upper(match.group)) ELSE "fuel_code" :> "G"

\* r'Fuel Type[:\s]*([A-Za-z]+)'; fuel_code is always stored.
Fuel(text_clean) ==
    FuelEntries(LabelSearch(text_clean, {"Fuel Type"}, FALSE, ColonSpace, 0, Letters, 1,
                            Unbounded(text_clean)))

\* [:\s\(kg\)]
WeightSeparators == ColonSpace \cup {"(", "k", "g", ")"}

\* [0-9,]
DigitsComma == Digits \cup {","}

\* data['net_weight'] = match.group(1).replace(',', '')
WeightEntry(match) == Entry(match.found, "net_weight", RemoveChars(match.group, {","}))

\* r'Net Weight[:\s\(kg\)]*([0-9,]+)', commas removed.
NetWeight(text_clean) ==
    WeightEntry(LabelSearch(text_clean, {"Net Weight"}, FALSE,
                            WeightSeparators, 0, DigitsComma, 1, Unbounded(text_clean)))

(***************************************************************************)
(* extract_apv250_data: owners                                             *)
(***************************************************************************)
DigitValue(c) == (CHOOSE i \in 1..10 : Ch("0123456789", i) = c) - 1

RECURSIVE IntDigits(_)
IntDigits(digits) ==
    IF digits = "" THEN 0
    ELSE 10 * IntDigits(Slice(digits, 1, Len(digits) - 1)) + DigitValue(Ch(digits, Len(digits)))

\* The value of digits without leading zeros. Python integers have no width; the
\* integers here have 32 bits, so a value of more than nine digits is held as
\* 10^9, which answers the one comparison the code makes with it
\* (num_owners > 1) as the value itself does.
IntSignificant(significant) ==
    IF Len(significant) > 9 THEN 1000000000 ELSE IntDigits(significant)

\* int(digits)
IntOf(digits) == IntSignificant(Slice(digits, RunLen(digits, 1, {"0"}) + 1, Len(digits)))

\* int() refuses a digit string longer than CPython's conversion limit (ValueError).
IntRaises(digits) == Len(digits) > 4300

\* r'Number of Owners[:\s]*(\d+)'
NumOwnersMatch(text_clean) ==
    LabelSearch(text_clean, {"Number of Owners"}, FALSE, ColonSpace, 0, Digits, 1,
                Unbounded(text_clean))

\* int(num_owners_match.group(1)) if num_owners_match else 1
CountOf(num_owners_match) ==
    IF num_owners_match.found THEN IntOf(num_owners_match.group) ELSE 1

NumOwners(text_clean) == CountOf(NumOwnersMatch(text_clean))

\* $ without re.MULTILINE: the end of the text, or just before a final newline.
AtEnd(s, e) == e = Len(s) + 1 \/ (e = Len(s) /\ Ch(s, e) = "\n")

\* The section from the label at p (0: no label) to the first end after the label.
SectionFrom(s, p) ==
    IF p = 0 THEN NoMatch
    ELSE Span(s, p, Min({e \in (p + Len("Registered Owner"))..(Len(s) + 1) :
                           \/ LitAtI(s, e, "This Certificate")
                           \/ LitAtI(s, e, "Number of Owners")
                           \/ AtEnd(s, e)}))

\* r'Registered Owner.*?(?=This Certificate|Number of Owners|$)', DOTALL | IGNORECASE
OwnerSection(text_clean) ==
    SectionFrom(text_clean,
                Min0({p \in 1..Len(text_clean) : LitAtI(text_clean, p, "Registered Owner")}))

RECURSIVE NameTokensEnd(_, _)
\* One more token \s+[A-Z]{2,}: w white space at e, then u upper-case letters.
NameToken(s, e, w, u) == IF w >= 1 /\ u >= 2 THEN NameTokensEnd(s, e + w + u) ELSE e

\* (?:\s+[A-Z]{2,})* from position e on: the position after the last token.
NameTokensEnd(s, e) ==
    NameToken(s, e, RunLen(s, e, WhiteSpace),
              RunLen(s, e + RunLen(s, e, WhiteSpace), UpperCase))

\* The name from p + 1 on, its first token u letters long, its last token ending at e.
NameSpan(s, p, u, e) ==
    IF Ch(s, p) = "\n" /\ u >= 2 /\ e > p + 1 + u
    THEN [found |-> TRUE, start |-> p, stop |-> e, group |-> Slice(s, p + 1, e - 1)]
    ELSE NoMatch

\* r'\n([A-Z]{2,}(?:\s+[A-Z]{2,})+)' tried at position p.
NameAt(s, p) ==
    NameSpan(s, p, RunLen(s, p + 1, UpperCase),
             NameTokensEnd(s, p + 1 + RunLen(s, p + 1, UpperCase)))

RECURSIVE FindAllNames(_, _)
\* The match m, then the matches after it.
NamesAfter(s, m) ==
    IF m.found THEN <<m.group>> \o FindAllNames(s, m.stop) ELSE <<>>

\* re.findall of that pattern: the matches from left to right, none overlapping.
FindAllNames(s, from) ==
    NamesAfter(s, Leftmost({NameAt(s, p) : p \in from..Len(s)}))

Surnames ==
    {"SACHDEV", "SINGH", "KUMAR", "KAUR", "GILL", "DHILLON", "GREWAL", "SANDHU", "SIDHU",
     "BRAR", "MANN", "CHEEMA", "DHALIWAL", "BAJWA", "JOHAL", "KHANNA", "SHARMA", "PATEL",
     "WONG", "CHEN", "LEE", "WANG", "LI", "ZHANG", "LIU", "YANG", "HUANG", "WU", "ZHOU",
     "XU", "MA", "ZHU", "HU", "LIN", "GUO", "SMITH", "JOHNSON", "WILLIAMS", "BROWN",
     "JONES", "MILLER", "DAVIS", "WILSON", "ANDERSON", "TAYLOR", "THOMAS", "MOORE",
     "MARTIN", "JACKSON", "WHITE", "HARRIS", "CLARK", "LEWIS", "WALKER", "HALL", "YOUNG",
     "KING", "WRIGHT", "HILL", "SCOTT", "GREEN", "ADAMS", "BAKER", "NELSON", "CARTER",
     "MITCHELL", "ROBERTS", "TURNER", "PHILLIPS", "CAMPBELL", "PARKER", "EVANS", "EDWARDS",
     "COLLINS", "STEWART", "MORRIS", "ROGERS", "REED", "COOK", "MORGAN", "BELL", "MURPHY",
     "BAILEY", "RIVERA", "COOPER", "RICHARDSON", "COX", "HOWARD", "WARD", "TORRES",
     "PETERSON", "GRAY", "RAMIREZ", "JAMES", "WATSON", "BROOKS", "KELLY", "SANDERS",
     "PRICE", "BENNETT", "WOOD", "BARNES", "ROSS", "HENDERSON", "COLEMAN", "JENKINS",
     "PERRY", "POWELL", "LONG", "PATTERSON", "HUGHES", "FLORES", "WASHINGTON", "BUTLER",
     "SIMMONS", "FOSTER", "GONZALES", "BRYANT", "ALEXANDER", "RUSSELL", "GRIFFIN", "DIAZ",
     "HAYES"}

SurnameLengths == {Len(n) : n \in Surnames}

\* [A-Z\s]
UpperSpace == UpperCase \cup WhiteSpace

\* A surname stands at p and the run of [A-Z\s] from p is longer than it.
SurnameRun(s, p, run) ==
    IF \E n \in SurnameLengths : n < run /\ Slice(s, p, p + n - 1) \in Surnames
    THEN Span(s, p, p + run)
    ELSE NoMatch

\* r'(?:SACHDEV|SINGH|...)[A-Z\s]+' tried at position p: a surname, then at least
\* one more character of [A-Z\s]; whichever alternative matches, the greedy class
\* runs to the end of the run of [A-Z\s] that starts at p.
SurnameAt(s, p) == SurnameRun(s, p, RunLen(s, p, UpperSpace))

RECURSIVE FindAllSurnames(_, _)
SurnamesAfter(s, m) ==
    IF m.found THEN <<m.group>> \o FindAllSurnames(s, m.stop) ELSE <<>>

FindAllSurnames(s, from) ==
    SurnamesAfter(s, Leftmost({SurnameAt(s, p) : p \in from..Len(s)}))

\* A variant that takes the second match whatever the count of owners is.
OwnersFromAnyCount(matches, num_owners) ==
    IF Len(matches) = 0 THEN Entry(FALSE, "owner_name", "")
    ELSE ("owner_name" :> Strip(matches[1]))
         @@ (IF Len(matches) > 1
             THEN "owner_name_2" :> Strip(matches[2])
             ELSE Entry(FALSE, "owner_name_2", ""))

\* data['owner_name'] = matches[0].strip(), and the second match as owner_name_2
\* when num_owners > 1.
OwnersFrom(matches, num_owners) ==
    IF Len(matches) = 0 THEN Entry(FALSE, "owner_name", "")
    ELSE ("owner_name" :> Strip(matches[1]))
         @@ (IF num_owners > 1 /\ Len(matches) > 1
             THEN "owner_name_2" :> Strip(matches[2])
             ELSE Entry(FALSE, "owner_name_2", ""))

\* if owner_section: the names found in it.
NamesIn(owner_section, num_owners) ==
    IF owner_section.found
    THEN OwnersFrom(FindAllNames(owner_section.group, 1), num_owners)
    ELSE Entry(FALSE, "owner_name", "")

\* The names found in the "Registered Owner" section.
OwnerLabelled(text_clean, num_owners) == NamesIn(OwnerSection(text_clean), num_owners)

\* if 'owner_name' not in data: the fallback
OwnerOr(labelled, fallback) == IF Has(labelled, "owner_name") THEN labelled ELSE fallback

\* If no owner found, the surname-list pattern over the whole text.
OwnerNames(text_clean, num_owners) ==
    OwnerOr(OwnerLabelled(text_clean, num_owners),
            OwnersFrom(FindAllSurnames(text_clean, 1), num_owners))

(***************************************************************************)
(* extract_apv250_data: owner address                                      *)
(***************************************************************************)
\* The complement of [^,\n]
CommaNewline == {",", "\n"}

\* (?:ST|AVE|RD|DR|BLVD|WAY|CRES|PL|CT), in the order the alternatives are tried.
LocSuffixes == <<"ST", "AVE", "RD", "DR", "BLVD", "WAY", "CRES", "PL", "CT">>

\* (?:ST|AVE|RD|DR|BLVD|WAY|CRES|PL|CT|LANE|CRT)
ShortSuffixes == LocSuffixes \o <<"LANE", "CRT">>

\* (?:ST|AVE|RD|DR|BLVD|WAY|CRES|PL|CT|LANE|CRT|STREET|AVENUE|ROAD|DRIVE)
LongSuffixes == ShortSuffixes \o <<"STREET", "AVENUE", "ROAD", "DRIVE">>

\* The position after suffixes[i] at p; 0 when i is 0.
SuffixEndOf(p, suffixes, i) == IF i = 0 THEN 0 ELSE p + Len(suffixes[i])

\* An alternation of literals under IGNORECASE tried at position p: the first
\* alternative that stands there, as the position after it; 0 when none does.
SuffixEnd(s, p, suffixes) ==
    SuffixEndOf(p, suffixes, Min0({i \in 1..Len(suffixes) : LitAtI(s, p, suffixes[i])}))

\* \d+[- ]\d+[^,\n]+ at g: d1 digits, then rest characters of [^,\n] after the separator.
LocUnit(s, g, d1, rest) ==
    IF /\ d1 >= 1
       /\ Ch(s, g + d1) \in {"-", " "}
       /\ Ch(s, g + d1 + 1) \in Digits
       /\ rest >= 2
    THEN Span(s, g, g + d1 + 1 + rest)
    ELSE NoMatch

\* The class gave back to k characters (0: no suffix stands after any k >= 1).
LocSuffixedTo(s, g, k) ==
    IF k = 0 THEN NoMatch ELSE Span(s, g, SuffixEnd(s, g + k, LocSuffixes))

\* [^,\n]+(?:ST|...|CT) at g, run characters of [^,\n] standing there: the greedy
\* class gives back until a suffix stands after it.
LocSuffixed(s, g, run) ==
    LocSuffixedTo(s, g, Max0({k \in 1..(run - 1) : SuffixEnd(s, g + k, LocSuffixes) # 0}))

\* The group (\d+[- ]\d+[^,\n]+|[^,\n]+(?:ST|...|CT)) tried at position g.
LocGroupAt(s, g) ==
    FirstFound(LocUnit(s, g, RunLen(s, g, Digits),
                       RunLenNot(s, g + RunLen(s, g, Digits) + 1, CommaNewline)),
               LocSuffixed(s, g, RunLenNot(s, g, CommaNewline)))

\* The ways to take \d?:?\s* at q with the group matching after them: digit taken,
\* colon taken, white space taken.
LocWays(s, q) ==
    {c \in (0..1) \X (0..1) \X (0..Len(s)) :
        /\ c[1] = 1 => Ch(s, q) \in Digits
        /\ c[2] = 1 => Ch(s, q + c[1]) = ":"
        /\ c[3] <= RunLen(s, q + c[1] + c[2], WhiteSpace)
        /\ LocGroupAt(s, q + c[1] + c[2] + c[3]).found}

\* Each of the three is taken greedily and given back in that order.
LocBefore(a, b) ==
    \/ a[1] > b[1]
    \/ a[1] = b[1] /\ a[2] > b[2]
    \/ a[1] = b[1] /\ a[2] = b[2] /\ a[3] >= b[3]

LocGroupAfter(s, q, way) == LocGroupAt(s, q + way[1] + way[2] + way[3])

LocFirstWay(s, q, ways) ==
    IF ways = {} THEN NoMatch
    ELSE LocGroupAfter(s, q, CHOOSE c \in ways : \A o \in ways : LocBefore(c, o))

\* r'Location Address \d?:?\s*(...)' tried at position p: the optional digit, the
\* optional colon and the white space are each taken greedily and given back in
\* that order, so the match is the one with the most of each, in that priority.
LocAt(s, p) ==
    IF LitAtI(s, p, "Location Address ")
    THEN LocFirstWay(s, p + Len("Location Address "), LocWays(s, p + Len("Location Address ")))
    ELSE NoMatch

\* The leftmost position where the label stands and the pattern matches.
LocMatch(text_clean) ==
    LocAt(text_clean, Min0({p \in 1..Len(text_clean) : LocAt(text_clean, p).found}))

\* A variant that tests the length alone.
StreetEntryByLength(found, street) ==
    Entry(found /\ Len(street) > 5 /\ Len(street) < 60, "owner_street", street)

\* if len(street) > 5 and len(street) < 60 and any(c.isdigit() for c in street)
StreetEntry(found, street) ==
    Entry(/\ found
          /\ Len(street) > 5 /\ Len(street) < 60
          /\ Chars(street) \cap Digits # {},
          "owner_street", street)

\* street = loc_match.group(1).strip().upper()
LocEntry(loc_match) == StreetEntry(loc_match.found, Upper(Strip(loc_match.group)))

\* The "Location Address" street: stored only with a digit and 5 < len < 60.
LocStreet(text_clean) == LocEntry(LocMatch(text_clean))

\* The suffix: the name's characters are given back until a blank and a suffix stand
\* after them; emax is the last such blank, 0 when there is none.
AddrSuffix(s, p, emax, suffixes) ==
    IF emax = 0 THEN NoMatch ELSE Span(s, p, SuffixEnd(s, emax + 1, suffixes))

\* The name from a0 on: la characters of first, then lb of more.
AddrName(s, p, a0, la, lb, suffixes) ==
    IF la < 1 THEN NoMatch
    ELSE AddrSuffix(s, p,
                    Max0({e \in (a0 + la)..(a0 + la + lb) :
                            Ch(s, e) = " " /\ SuffixEnd(s, e + 1, suffixes) # 0}),
                    suffixes)

\* The blank at h that ends the number, then the name.
AddrBlank(s, p, h, first, more, suffixes) ==
    IF Ch(s, h) # " " THEN NoMatch
    ELSE AddrName(s, p, h + 1, RunLen(s, h + 1, first),
                  RunLen(s, h + 1 + RunLen(s, h + 1, first), more), suffixes)

\* \d{1,5}[- ]\d{1,5} at p: d1 digits, the separator, d2 digits.
AddrUnit(s, p, d1, d2, first, more, suffixes) ==
    IF Ch(s, p + d1) \in {"-", " "} /\ d2 >= 1 /\ d2 <= 5
    THEN AddrBlank(s, p, p + d1 + 1 + d2, first, more, suffixes)
    ELSE NoMatch

\* \d{1,5} at p, d1 digits standing there.
AddrNumber(s, p, d1, unit, first, more, suffixes) ==
    IF d1 < 1 \/ d1 > 5 THEN NoMatch
    ELSE IF unit
    THEN AddrUnit(s, p, d1, RunLen(s, p + d1 + 1, Digits), first, more, suffixes)
    ELSE AddrBlank(s, p, p + d1, first, more, suffixes)

\* \d{1,5} [A-Z\.]+[A-Z\. ]* (?:suffixes)  or, with unit,  \d{1,5}[- ]\d{1,5} ...
\* tried at position p under IGNORECASE; first is the class of the name's first
\* token, more the class of what may follow it (empty: one token only).
AddrAt(s, p, unit, first, more, suffixes) ==
    AddrNumber(s, p, RunLen(s, p, Digits), unit, first, more, suffixes)

\* [A-Z\.], [A-Z\. ] and [A-Z ] under IGNORECASE
LettersDot == Letters \cup {"."}

LettersDotBlank == LettersDot \cup {" "}

LettersBlank == Letters \cup {" "}

\* addr_patterns, in order.
addr_patterns ==
    << [unit |-> TRUE, first |-> LettersDot, more |-> LettersDotBlank,
        suffixes |-> ShortSuffixes],
       [unit |-> FALSE, first |-> LettersDot, more |-> LettersDotBlank,
        suffixes |-> LongSuffixes],
       [unit |-> TRUE, first |-> Letters, more |-> {}, suffixes |-> LongSuffixes],
       [unit |-> FALSE, first |-> Letters, more |-> LettersBlank,
        suffixes |-> LongSuffixes] >>

AddrPatternAt(s, p, pattern) ==
    AddrAt(s, p, pattern.unit, pattern.first, pattern.more, pattern.suffixes)

\* re.search(pattern, text_clean, re.IGNORECASE): a match starts with a digit.
AddrMatch(text_clean, pattern) ==
    Leftmost({AddrPatternAt(text_clean, p, pattern) :
                p \in {q \in 1..Len(text_clean) : Ch(text_clean, q) \in Digits}})

\* A 2-letter token ends the street and is none of the suffixes kept.
TrimTwo(street, n, keep) ==
    /\ n >= 3 /\ Ch(street, n - 2) = " "
    /\ Ch(street, n - 1) \in UpperCase /\ Ch(street, n) \in UpperCase
    /\ \A i \in 1..Len(keep) : ~LitAt(street, n - 1, keep[i])

\* A 1-letter token ends the street.
TrimOne(street, n, keep) ==
    /\ n >= 2 /\ Ch(street, n - 1) = " "
    /\ Ch(street, n) \in UpperCase
    /\ \A i \in 1..Len(keep) : ~LitAt(street, n, keep[i])

\* re.sub(r' (?!ST|RD|DR|PL|CT|AVE|WAY)[A-Z]{1,2}$', '', street)
TrimJunk(street) ==
    IF TrimTwo(street, Len(street), <<"ST", "RD", "DR", "PL", "CT", "AVE", "WAY">>)
    THEN Slice(street, 1, Len(street) - 3)
    ELSE IF TrimOne(street, Len(street), <<"ST", "RD", "DR", "PL", "CT", "AVE", "WAY">>)
    THEN Slice(street, 1, Len(street) - 2)
    ELSE street

RECURSIVE StreetFrom(_, _)
\* One pass of the loop: the street is stored when 5 < len(street) < 60 and the
\* loop ends; otherwise the next pattern is tried.
StreetTry(text_clean, i, found, street) ==
    IF found /\ Len(street) > 5 /\ Len(street) < 60
    THEN Entry(TRUE, "owner_street", street)
    ELSE StreetFrom(text_clean, i + 1)

\* The loop over addr_patterns from pattern i on.
StreetFrom(text_clean, i) ==
    IF i > Len(addr_patterns) THEN Entry(FALSE, "owner_street", "")
    ELSE StreetTry(text_clean, i, AddrMatch(text_clean, addr_patterns[i]).found,
                   TrimJunk(Upper(Strip(AddrMatch(text_clean, addr_patterns[i]).group))))

GenericStreet(text_clean) == StreetFrom(text_clean, 1)

\* if 'owner_street' not in data: the generic patterns
StreetOr(loc, generic) == IF Has(loc, "owner_street") THEN loc ELSE generic

OwnerStreet(text_clean) == StreetOr(LocStreet(text_clean), GenericStreet(text_clean))

bc_cities ==
    <<"ABBOTSFORD", "VANCOUVER", "RICHMOND", "BURNABY", "SURREY", "COQUITLAM", "LANGLEY",
      "VICTORIA", "KELOWNA", "KAMLOOPS", "NANAIMO", "CHILLIWACK", "MAPLE RIDGE",
      "NEW WESTMINSTER", "NORTH VANCOUVER", "WEST VANCOUVER", "DELTA", "PORT COQUITLAM",
      "MISSION", "WHITE ROCK", "PENTICTON", "VERNON", "COURTENAY", "PORT MOODY",
      "PITT MEADOWS">>

CityInitials == {Ch(bc_cities[i], 1) : i \in 1..Len(bc_cities)}

\* ([A-Z0-9]{3}\s*[A-Z0-9]{3}) at a, w3 white space after its first three characters.
PostalGroup(s, p, q, a, w3) ==
    IF RunLen(s, a, AlnumClass) >= 3 /\ RunLen(s, a + 3 + w3, AlnumClass) >= 3
    THEN [found |-> TRUE, start |-> p, stop |-> a + 3 + w3 + 3,
          group |-> Slice(s, p, q - 1), group2 |-> Slice(s, a, a + 3 + w3 + 2)]
    ELSE NoMatch

\* BC\s+ at b, w2 white space after it.
PostalProvince(s, p, q, b, w2) ==
    IF LitAtI(s, b, "BC") /\ w2 >= 1
    THEN PostalGroup(s, p, q, b + 2 + w2, RunLen(s, b + 2 + w2 + 3, WhiteSpace))
    ELSE NoMatch

\* \s+ at q, where the city ends, w1 white space standing there.
PostalAfterCity(s, p, q, w1) ==
    IF w1 >= 1 THEN PostalProvince(s, p, q, q + w1, RunLen(s, q + w1 + 2, WhiteSpace))
    ELSE NoMatch

\* The city bc_cities[c] stands at p (c = 0: none does).
PostalCity(s, p, c) ==
    IF c = 0 THEN NoMatch
    ELSE PostalAfterCity(s, p, p + Len(bc_cities[c]),
                         RunLen(s, p + Len(bc_cities[c]), WhiteSpace))

\* bc_cities + r'\s+BC\s+([A-Z0-9]{3}\s*[A-Z0-9]{3})' under IGNORECASE at position p.
PostalAt(s, p) ==
    IF ToUpper(Ch(s, p)) \notin CityInitials THEN NoMatch
    ELSE PostalCity(s, p, Min0({i \in 1..Len(bc_cities) : LitAtI(s, p, bc_cities[i])}))

\* The leftmost match; group is the city, group2 the postal code.
PostalMatch(text_clean) ==
    PostalAt(text_clean, Min0({p \in 1..Len(text_clean) : PostalAt(text_clean, p).found}))

\* Positions 0, 2, 4 should be letters.
ToLetter == ("2" :> "Z") @@ ("5" :> "S") @@ ("0" :> "O") @@ ("1" :> "I")

\* Positions 1, 3, 5 should be digits.
ToDigit == ("Z" :> "2") @@ ("S" :> "5") @@ ("O" :> "0") @@ ("I" :> "1") @@ ("l" :> "1")

\* fixed += the character at position i, mapped as its position asks.
FixAt(postal, i) ==
    MapStr(Ch(postal, i), IF i \in {1, 3, 5} THEN ToLetter ELSE ToDigit)

\* The position map over the six characters, then fixed[:3] + ' ' + fixed[3:].
FixPostal(postal) ==
    FixAt(postal, 1) \o FixAt(postal, 2) \o FixAt(postal, 3) \o " "
    \o FixAt(postal, 4) \o FixAt(postal, 5) \o FixAt(postal, 6)

\* The postal code stored: fixed when len(postal) == 6.
PostalOf(postal) == IF Len(postal) = 6 THEN FixPostal(postal) ELSE postal

\* postal = group(2).strip().upper().replace(' ', '')
OwnerPostal(group2) == PostalOf(RemoveChars(Upper(Strip(group2)), {" "}))

\* The three entries of a match of the city pattern.
CityEntries(postal_match) ==
    IF postal_match.found
    THEN ("owner_city" :> Upper(Strip(postal_match.group)))
         @@ ("owner_province" :> "BC")
         @@ ("owner_postal" :> OwnerPostal(postal_match.group2))
    ELSE Entry(FALSE, "owner_city", "")

CityPostal(text_clean) == CityEntries(PostalMatch(text_clean))

(***************************************************************************)
(* extract_apv250_data: body style                                         *)
(***************************************************************************)
\* [A-Za-z0-9 ]
BodyClass == Letters \cup Digits \cup {" "}

\* (?:\n|VIC|Colour|$) under re.IGNORECASE stands at position e.
BodyTerm(s, e) ==
    Ch(s, e) = "\n" \/ LitAtI(s, e, "VIC") \/ LitAtI(s, e, "Colour") \/ AtEnd(s, e)

\* ([A-Za-z0-9 ]+?) from g, r characters of the class standing there: the group is
\* the shortest one that a terminator follows. Its end, or 0.
BodyGroupEnd(s, g, r) == Min0({e \in (g + 1)..(g + r) : BodyTerm(s, e)})

\* The group s[g..e-1] of the match that started at p; no match when e = 0.
BodyGroupTo(s, p, g, e) ==
    IF e = 0 THEN NoMatch
    ELSE [found |-> TRUE, start |-> p, stop |-> e, group |-> Slice(s, g, e - 1)]

BodyGroupAt(s, p, g) ==
    BodyGroupTo(s, p, g, BodyGroupEnd(s, g, RunLen(s, g, BodyClass)))

\* [:\s]* is greedy: of the numbers ks of separators after which the group
\* matches, the greatest.
BodyMostSeps(s, p, q, ks) ==
    IF ks = {} THEN NoMatch ELSE BodyGroupAt(s, p, q + Max0(ks))

\* The separators and the group after a label that ends at q, n separators
\* standing there.
BodySeps(s, p, q, n) ==
    BodyMostSeps(s, p, q,
                 {k \in 0..n : BodyGroupEnd(s, q + k, RunLen(s, q + k, BodyClass)) > 0})

\* The rest of the first pattern after the label form lab, if lab stands at p.
BodyAfter(s, p, lab) ==
    IF LitAtI(s, p, lab)
    THEN BodySeps(s, p, p + Len(lab), RunLen(s, p + Len(lab), ColonSpace))
    ELSE NoMatch

\* r'Body Styl?e?[:\s]*([A-Za-z0-9 ]+?)(?:\n|VIC|Colour|$)' tried at p: l? and e?
\* are greedy, so the longer forms of the label are tried first.
BodyStyleAt(s, p) ==
    FirstFound(BodyAfter(s, p, "Body Style"),
               FirstFound(BodyAfter(s, p, "Body Styl"),
                          FirstFound(BodyAfter(s, p, "Body Stye"),
                                     BodyAfter(s, p, "Body Sty"))))

\* The types of the third pattern, in the order of its alternation.
DoorTypes ==
    <<"Sedan", "Coupe", "Hatchback", "SUV", "Truck", "Van", "Wagon", "Conv", "Sea", "Sed">>

\* The end of the first type of the alternation that stands at position t, or 0.
DoorTypeEnd(s, t) ==
    IF \E i \in 1..Len(DoorTypes) : LitAtI(s, t, DoorTypes[i])
    THEN t + Len(DoorTypes[Min({i \in 1..Len(DoorTypes) : LitAtI(s, t, DoorTypes[i])})])
    ELSE 0

\* [A-Za-z]+ at position t: its end, or 0.
DoorWordEnd(s, t) == IF RunLen(s, t, Letters) >= 1 THEN t + RunLen(s, t, Letters) ELSE 0

\* The end of the type at t: any word (second pattern) or a type of the list.
DoorEnd(s, t, listed) == IF listed THEN DoorTypeEnd(s, t) ELSE DoorWordEnd(s, t)

\* ' ?' at position t: the position after it.
SkipBlank(s, t) == IF Ch(s, t) = " " THEN t + 1 ELSE t

\* 'Door ?<type>' at position t: the end of the match, or 0. The blank is taken
\* when one stands there, and given back if no type follows it.
DoorAt(s, t, listed) ==
    IF ~LitAtI(s, t, "Door") THEN 0
    ELSE IF DoorEnd(s, SkipBlank(s, t + 4), listed) > 0
    THEN DoorEnd(s, SkipBlank(s, t + 4), listed)
    ELSE DoorEnd(s, t + 4, listed)

\* (\d+ ?Door ?<type>) with d digits at g: the group of the match that started at p.
DoorGroup(s, p, g, d, listed) ==
    IF d >= 1
    THEN BodyGroupTo(s, p, g, Max0({DoorAt(s, SkipBlank(s, g + d), listed), DoorAt(s, g + d, listed)}))
    ELSE NoMatch

DoorGroupAt(s, p, g, listed) == DoorGroup(s, p, g, RunLen(s, g, Digits), listed)

\* The label of the second pattern, Body Sl[ea]?, at position p: its end, or 0.
BodySlEnd(s, p) ==
    IF ~LitAtI(s, p, "Body Sl") THEN 0
    ELSE IF ToLower(Ch(s, p + 7)) \in {"e", "a"} THEN p + 8
    ELSE p + 7

\* r'Body Sl[ea]?[:\s]*(\d+ ?Door ?[A-Za-z]+)' tried at p: no separator is a digit
\* and neither e nor a is one, so the greedy choices are the only ones.
BodySlFrom(s, p, q) ==
    IF q = 0 THEN NoMatch ELSE DoorGroupAt(s, p, q + RunLen(s, q, ColonSpace), FALSE)

BodySlAt(s, p) == BodySlFrom(s, p, BodySlEnd(s, p))

\* body_patterns: how each is tried at a position.
BodyPatternAt(s, p, i) ==
    IF i = 1 THEN BodyStyleAt(s, p)
    ELSE IF i = 2 THEN BodySlAt(s, p)
    ELSE DoorGroupAt(s, p, p, TRUE)

\* The positions where a match of pattern i can start: the first two patterns
\* start with the B of their label, the third with a digit.
BodyStarts(s, i) ==
    {p \in 1..Len(s) : IF i = 3 THEN Ch(s, p) \in Digits ELSE Ch(s, p) \in {"B", "b"}}

\* match = re.search(pattern, text_clean, re.IGNORECASE)
BodyMatch(text_clean, i) ==
    Leftmost({BodyPatternAt(text_clean, p, i) : p \in BodyStarts(text_clean, i)})

\* The categories with their keywords, in the order of the if / elif chain.
body_categories ==
    << [style |-> "SEDAN", keywords |-> {"sedan", "sea", "sed", "4 door", "4door"}],
       [style |-> "SUV", keywords |-> {"suv", "sport util", "crossover"}],
       [style |-> "TRUCK", keywords |-> {"truck", "pickup", "pick up", "pick-up"}],
       [style |-> "COUPE", keywords |-> {"coupe", "cpe", "2 door", "2door"}],
       [style |-> "WAGON", keywords |-> {"wagon", "wgn", "estate"}],
       [style |-> "CONVERTIBLE", keywords |-> {"convert", "conv", "cabriolet", "roadster"}],
       [style |-> "HATCHBACK", keywords |-> {"hatch", "hatchback", "5 door", "5door"}],
       [style |-> "VAN", keywords |-> {"van", "minivan"}] >>

\* The same categories with HATCHBACK and VAN tested before SEDAN.
body_categories_reordered ==
    << body_categories[7], body_categories[8], body_categories[1], body_categories[2],
       body_categories[3], body_categories[4], body_categories[5], body_categories[6] >>

\* any(x in body_lower for x in keywords)
AnyIn(body_lower, keywords) == \E x \in keywords : Contains(body_lower, x)

\* The categories of the chain one of whose keywords is in body_lower.
CategoriesOf(categories, body_lower) ==
    {i \in 1..Len(categories) : AnyIn(body_lower, categories[i].keywords)}

\* The branch of the chain that is taken; the else branch keeps body.
StyleAmong(categories, hits, body) ==
    IF hits = {} THEN body ELSE categories[Min(hits)].style

\* A variant that walks the reordered chain.
BodyStyleReordered(body) ==
    StyleAmong(body_categories_reordered,
               CategoriesOf(body_categories_reordered, Lower(body)), body)

\* data['body_style'] for body = match.group(1).strip().upper()
BodyStyleOf(body) ==
    StyleAmong(body_categories, CategoriesOf(body_categories, Lower(body)), body)

\* The loop over body_patterns stops at the first pattern that matches.
BodyFirst(text_clean) ==
    FirstFound(BodyMatch(text_clean, 1),
               FirstFound(BodyMatch(text_clean, 2), BodyMatch(text_clean, 3)))

\* A variant that keeps the captured text whatever keywords it holds.
BodyEntryVerbatim(match) == Entry(match.found, "body_style", Upper(Strip(match.group)))

BodyEntry(match) ==
    Entry(match.found, "body_style", BodyStyleOf(Upper(Strip(match.group))))

\* r'VIC[:\s]*([A-Z0-9]{4,8})'
VicMatch(text_clean) ==
    LabelSearch(text_clean, {"VIC"}, FALSE, ColonSpace, 0, UpperCase \cup Digits, 4, 8)

\* A variant in which the VIC code, when there is one, is the body style.
BodyOrVicFirst(body, vic) == IF Has(vic, "body_style") THEN vic ELSE body

\* if 'body_style' not in data: the VIC code as fallback
BodyOr(body, vic) == IF Has(body, "body_style") THEN body ELSE vic

BodyStyle(text_clean) ==
    BodyOr(BodyEntry(BodyFirst(text_clean)), UpperEntry(VicMatch(text_clean), "body_style"))

(***************************************************************************)
(* extract_apv250_data: the record                                         *)
(***************************************************************************)
\* The fields found in text_clean, gathered in data.
FieldsOf(text_clean) ==
    RegistrationNumber(text_clean) @@ Vin(text_clean) @@ Year(text_clean)
    @@ Make(text_clean) @@ Model(text_clean) @@ BodyStyle(text_clean)
    @@ Colour(text_clean)
    @@ Fuel(text_clean) @@ NetWeight(text_clean)
    @@ OwnerNames(text_clean, NumOwners(text_clean))
    @@ OwnerStreet(text_clean) @@ CityPostal(text_clean)

\* The record built from the text of the document.
ExtractFields(text) == FieldsOf(TextClean(text))

\* int(num_owners_match.group(1)) raises.
CountRaises(num_owners_match) ==
    num_owners_match.found /\ IntRaises(num_owners_match.group)

\* The call raises when int() refuses the owner count.
ExtractRaises(text) == CountRaises(NumOwnersMatch(TextClean(text)))

(***************************************************************************)
(* The documents the engine is run on                                      *)
(***************************************************************************)
\* The number of trailing VIN characters that range over VinGlyphs.
VinVary == 2

\* The most lines an owner block holds.
MaxOwnerLines == 3

RECURSIVE StringsOver(_, _)
\* The strings of length n over the characters C.
StringsOver(C, n) ==
    IF n = 0 THEN {""}
    ELSE {s \o c : s \in StringsOver(C, n - 1), c \in C}

\* Standard VIN characters (2, A, S) and glyphs OCR confuses with them (I, O, l, Q).
VinGlyphs == {"2", "A", "S", "I", "O", "l", "Q"}

\* 17-character VIN texts: a fixed stem and VinVary free characters.
VinTexts == {Slice("1HGCM82633A004352", 1, 17 - VinVary) \o t : t \in StringsOver(VinGlyphs, VinVary)}

RegTexts == {"1234567", "98765432"}

YearTexts == {"2019", "1987"}

\* A clean document with exact labels.
CleanDocument(R, V, Y) ==
    "Registration Number: " \o R \o "\nVIN: " \o V \o "\nYear: " \o Y \o "\n"

CleanDocuments == {CleanDocument(R, V, Y) : R \in RegTexts, V \in VinTexts, Y \in YearTexts}

\* 17 characters after a label that may or may not be a VIN label.
VinLabels == {"VIN", "vin: ", "Kevin ", "Serial: "}

LabelledVinDocuments == {lab \o V \o "\n" : lab \in VinLabels, V \in VinTexts}

OwnerLines == {"SMITH JOHN", "DOE JANE", "LEE ANN", "123 MAIN ST"}

RECURSIVE OwnerBlocks(_)
\* Up to n lines, each ended by a line break.
OwnerBlocks(n) ==
    IF n = 0 THEN {""}
    ELSE OwnerBlocks(n - 1) \cup {b \o l \o "\n" : b \in OwnerBlocks(n - 1), l \in OwnerLines}

OwnerCounts == {"", "Number of Owners: 1", "Number of Owners: 2"}

OwnerDocuments ==
    {pre \o b \o cnt : pre \in {"Registered Owner\n", "Owner copy\n"},
                       b \in OwnerBlocks(MaxOwnerLines), cnt \in OwnerCounts}

\* A whole certificate, and variants of it that lack fields.
Certificate(vehicle, owner, address) ==
    "VEHICLE REGISTRATION\n" \o vehicle \o owner \o address

FullVehicle ==
    "Registration Number: 1234567\nVIN: 1HGCM82633A004352\nYear: 2019\nMake: Honds\nModel: CR-V\nColour: Blue\nFuel Type: Diesel\nNet Weight (kg): 1,520\n"

OneOwner == "Registered Owner\nSMITH JOHN\nNumber of Owners: 1\n"

VehicleParts ==
    {"",
     "Registration Number: 1234567\n",
     "VIN: 1HGCM82633A004352\n",
     FullVehicle,
     "Registration Number: 1234567\nVIN: 1HGCM82633A004352\nYear: 2019\nMake: Honda\n"}

OwnerParts == {"", OneOwner}

AddressParts == {"", "305-3142 ST. JOHNS ST\nPORT MOODY BC V3H 2C5\n", "12 MAIN ST\n"}

Certificates ==
    {Certificate(v, o, a) : v \in VehicleParts, o \in OwnerParts, a \in AddressParts} \cup {""}

RECURSIVE Repeat(_, _)
\* The character c, n times.
Repeat(c, n) ==
    IF n = 0 THEN ""
    ELSE Repeat(c, n \div 2) \o Repeat(c, n \div 2) \o (IF n % 2 = 1 THEN c ELSE "")

\* Garbled owner counts: more digits than a 32-bit integer holds, and more than
\* int() converts.
GarbledCounts ==
    {"VIN: 1HGCM82633A004352\nRegistered Owner\nSMITH JOHN\n12 MAIN ST\nDOE JANE\nNumber of Owners: " \o n \o "\n" :
        n \in {"000000000001", "12345678901", Repeat("7", 4301)}}

\* Body styles after the label, after its OCR-degraded form and with no label,
\* with and without a VIC code after them.
BodyLabels == {"Body Style: ", "Body Styl", "Body Sle ", ""}

BodyTexts ==
    {"4 Door Sedan", "Pick Up", "Roadster Special", "Limo Special", "4 Door Hatchback",
     "2 Door Conv", "Sport Utility Van", "5Door Wagon", "Estate", ""}

BodyTails == {"\n", "\nVIC: SUV4X4\n", " VIC 12345678X\nColour: Blue\n", " Colour: Red"}

BodyDocuments == {lab \o b \o tail : lab \in BodyLabels, b \in BodyTexts, tail \in BodyTails}

\* Postal codes after a city: the second character stands where a digit
\* belongs and the third where a letter belongs, and the halves are separated by
\* nothing, spaces, a tab or a line break.
DigitPlaceGlyphs == {"3", "Z", "S", "O", "I", "l", "z"}

LetterPlaceGlyphs == {"H", "2", "5", "0", "1", "l"}

PostalSeparators == {"", " ", "  ", "\t", "\n"}

PostalDocuments ==
    {"SURREY BC V" \o d \o l \o sep \o "2C5\n" :
        d \in DigitPlaceGlyphs, l \in LetterPlaceGlyphs, sep \in PostalSeparators}

\* Fuels after the label, after a label in another case and after another label.
FuelLabels == {"Fuel Type: ", "Fuel Type", "fuel type: ", "Fuel: "}

FuelTexts ==
    {"Gasoline", "GAS", "Diesel", "electric", "Hybrid", "PROPANE", "Natural Gas",
     "Gasohol", "Petrol", "95", ""}

FuelDocuments == {lab \o f \o "\n" : lab \in FuelLabels, f \in FuelTexts}

\* Two lines that different patterns of one field match: the first line is
\* matched by a pattern of lower priority, or by the first pattern with a value
\* the code does not accept.
PriorityPairs ==
    [first : {"Make: X\n", "Make T\n", "Make: Hon\n", "Make:Honds\n", ""},
     second : {"make: Toyota\n", "Make Ford\n", "make ab\n", ""}]
    \cup [first : {"Registration Number1234567\n", ""},
          second : {"Registration Number: 7654321\n", "Registration Number:\t87654321\n"}]
    \cup [first : {"VIN 1HGCM82633A0043Q2\n", ""},
          second : {"VIN: 1HGCM82633A004352\n", "vin:1HGCM82633A0Q4352\n"}]
    \cup [first : {"2 Door Coupe\n", "Body Sle Wagon\n"},
          second : {"Body Style: Pick Up\n", "4 Door Sedan\n", "VIC: SUV4X4\n"}]

PriorityDocuments == {d.first \o d.second : d \in PriorityPairs}

\* Streets after the "Location Address" label and on a line of their own, with
\* lengths on both sides of the limits 6 and 59.
LocationTexts ==
    {"305-3142 ST. JOHNS ST", "305-3142 ST. JOHNS ST X", "12 MAIN ST NW", "MAIN ST",
     "5 ST", "1 AVE", "12 AVE", "1-2" \o Repeat("A", 56), "1-2" \o Repeat("A", 57)}

StreetLines ==
    {"", "99 OAK AVE\n", "7-11 ELM. PARK CRT\n", "1 A ST\n", "88 KING STREET E\n",
     "1 " \o Repeat("B", 54) \o " RD\n", "1 " \o Repeat("B", 55) \o " RD\n",
     "12-34 " \o Repeat("C", 51) \o " PL\n"}

StreetDocuments ==
    {"Location Address 1: " \o l \o "\n" \o g : l \in LocationTexts, g \in StreetLines}
    \cup StreetLines

\* Net weights after the label: digits, digits with a comma, a comma alone.
WeightTexts == {"1,520", "980", ",", ""}

WeightDocuments == {"Net Weight (kg): " \o w \o "\n" : w \in WeightTexts}

Documents ==
    CleanDocuments \cup LabelledVinDocuments \cup OwnerDocuments \cup Certificates
    \cup GarbledCounts \cup BodyDocuments \cup PostalDocuments \cup FuelDocuments
    \cup PriorityDocuments \cup StreetDocuments \cup WeightDocuments

(***************************************************************************)
(* The handlers: what each computes from the record                        *)
(***************************************************************************)
\* The record the handlers start from and extraction returns for an image when
\* OCR is not available (return {}).
EmptyRecord == [k \in {} |-> ""]

Routes == {"upload", "process_check", "process"}

allowed_extensions == {".pdf", ".jpg", ".jpeg", ".png"}

image_extensions == {".jpg", ".jpeg", ".png"}

\* str.endswith(suffixes)
EndsWith(s, suffixes) ==
    \E e \in suffixes : Len(s) >= Len(e) /\ Slice(s, Len(s) - Len(e) + 1, Len(s)) = e

\* A gate that tests the record itself: if not vehicle_data.
GateFailsOnEmptyRecord(route, vehicle_data) == DOMAIN vehicle_data = {}

\* The gate of the route does not hold: /upload and /process test the VIN alone,
\* /process-check tests the VIN and the registration number.
GateFails(route, vehicle_data) ==
    IF route = "process_check"
    THEN Get(vehicle_data, "vin") = "" /\ Get(vehicle_data, "registration_number") = ""
    ELSE Get(vehicle_data, "vin") = ""

\* field_checks of /process-check, in the order the dict is written.
field_checks ==
    << <<"vin", "VIN">>,
       <<"registration_number", "Registration Number">>,
       <<"year", "Year">>,
       <<"make", "Make">>,
       <<"model", "Model">>,
       <<"colour", "Colour">>,
       <<"owner_name", "Owner Name">>,
       <<"owner_street", "Owner Street Address">>,
       <<"owner_city", "Owner City">>,
       <<"owner_postal", "Owner Postal Code">> >>

RECURSIVE MissingFrom(_, _, _)
\* The loop over field_checks.items() from entry i on, appending entry[part].
MissingFrom(vehicle_data, i, part) ==
    IF i > Len(field_checks) THEN <<>>
    ELSE (IF Get(vehicle_data, field_checks[i][1]) = ""
          THEN <<field_checks[i][part]>> ELSE <<>>)
         \o MissingFrom(vehicle_data, i + 1, part)

\* A variant that appends the key of the field, not its label.
MissingFieldKeys(vehicle_data) == MissingFrom(vehicle_data, 1, 1)

\* missing_fields: the label of every entry whose field the record lacks.
MissingFields(vehicle_data) == MissingFrom(vehicle_data, 1, 2)

\* s[-6:]
LastSix(s) == Slice(s, Len(s) - 5, Len(s))

\* output_filename of the route.
OutputFilename(route, vehicle_data) ==
    LET vin == IF Has(vehicle_data, "vin") THEN vehicle_data["vin"] ELSE "unknown"
    IN  "APV9T_Filled_"
        \o (IF route = "process_check" /\ Len(vin) < 6 THEN vin ELSE LastSix(vin))
        \o ".pdf"

(***************************************************************************)
(* State                                                                   *)
(***************************************************************************)
VARIABLES
    text,           \* the text of the document the engine is run on
    stage,          \* "image": the rotations of an image are being tried; "text": not
                    \* yet extracted; "record": extracted; "raised": the call raised;
                    \* "checked": the record's missing fields are listed
    ocr,            \* the rotation search: the image, the rotations tried, best_text
    data,           \* the record extract_apv250_data returns
    missing_fields, \* the labels /process-check reports missing from that record
    OCR_AVAILABLE,  \* pytesseract was imported
    outcomes,       \* document -> what extract_apv250_data does on its text (it is a
                    \* function of the text alone, worked out once)
    folder,         \* UPLOAD_FOLDER: file name -> the file (an upload by the document it holds)
    pc,             \* request -> where its handler stands
    req,            \* request -> the route, the file name and the file it posted
    calls,          \* request -> what its calls of extract_apv250_data and fill_apv9t did
    vehicle_data,   \* request -> the handler's vehicle_data
    response        \* request -> what the handler returned

handlers == <<ocr, OCR_AVAILABLE, outcomes, folder, pc, req, calls, vehicle_data, response>>

\* What no handler changes.
fixed == <<text, stage, ocr, data, missing_fields, OCR_AVAILABLE, outcomes>>

vars ==
    <<text, stage, ocr, data, missing_fields, OCR_AVAILABLE, outcomes, folder, pc, req,
      calls, vehicle_data, response>>

\* Two requests in flight at once.
Requests == {"r1", "r2"}

NoFile == [kind |-> "none", readable |-> FALSE, text |-> "", by |-> "", data |-> EmptyRecord]

NoRequest == [route |-> "", attached |-> FALSE, filename |-> "", file |-> NoFile]

NoCalls == [read |-> "", extract |-> "none", fill |-> FALSE]

NoResponse ==
    [status |-> 0, error |-> "", data |-> EmptyRecord, reported |-> FALSE,
     missing_fields |-> <<>>, download |-> ""]

\* An error response: only the status and the error.
Failure(status, error) == [NoResponse EXCEPT !.status = status, !.error = error]

NoOutcome == [raises |-> FALSE, record |-> EmptyRecord]

\* What an image yields under one rotation: the text of the first recognition
\* and the text of the one with --psm 6.
NoScan == [text |-> "", text_psm6 |-> ""]

\* No image: the document is a text.
NoOcr == [image |-> <<NoScan, NoScan, NoScan, NoScan>>, tried |-> <<>>, best_text |-> "",
          found |-> FALSE]

NoFiles == [name \in {} |-> NoFile]

HandlersIdle ==
    /\ folder = NoFiles
    /\ pc = [r \in Requests |-> "idle"]
    /\ req = [r \in Requests |-> NoRequest]
    /\ calls = [r \in Requests |-> NoCalls]
    /\ vehicle_data = [r \in Requests |-> EmptyRecord]
    /\ response = [r \in Requests |-> NoResponse]

(***************************************************************************)
(* The engine on one document                                              *)
(***************************************************************************)
InitExtract ==
    /\ text \in Documents
    /\ stage = "text"
    /\ ocr = NoOcr
    /\ data = EmptyRecord
    /\ missing_fields = <<>>
    /\ OCR_AVAILABLE = TRUE
    /\ outcomes = [d \in {} |-> NoOutcome]
    /\ HandlersIdle

\* extract_apv250_data from `data = {}` on.
Extract ==
    /\ stage = "text"
    /\ IF ExtractRaises(text)
       THEN stage' = "raised" /\ data' = data
       ELSE stage' = "record" /\ data' = ExtractFields(text)
    /\ UNCHANGED <<text, missing_fields>>
    /\ UNCHANGED handlers

\* /process-check on the record extraction returned: past its gate, the loop over
\* field_checks.
CheckFields ==
    /\ stage = "record"
    /\ ~GateFails("process_check", data)
    /\ stage' = "checked"
    /\ missing_fields' = MissingFields(data)
    /\ UNCHANGED <<text, data>>
    /\ UNCHANGED handlers

NextExtract == Extract \/ CheckFields

(***************************************************************************)
(* The rotation search on one image                                        *)
(***************************************************************************)
\* for rotation in [0, 90, 270, 180]
rotations == <<0, 90, 270, 180>>

\* 'VIN' in text.upper() or 'REGISTRATION' in text.upper() or 'VEHICLE' in text.upper()
HasKeyword(t) ==
    \/ Contains(Upper(t), "VIN")
    \/ Contains(Upper(t), "REGISTRATION")
    \/ Contains(Upper(t), "VEHICLE")

\* A variant that keeps the latest of the texts of equal length.
KeepLatest(t, best_text) == IF Len(t) >= Len(best_text) THEN t ELSE best_text

\* if len(text) > len(best_text): best_text = text
KeepBest(t, best_text) == IF Len(t) > Len(best_text) THEN t ELSE best_text

\* What the recognitions of the image yield under each rotation, in the order
\* the rotations are tried.
Scans ==
    {NoScan,
     [text |-> "x", text_psm6 |-> "x y"],
     [text |-> "12 MAIN ST\n", text_psm6 |-> "12 MAIN ST\n"],
     [text |-> "99 OAK AVE\n", text_psm6 |-> "99 0AK AVE\n"],
     [text |-> "Kevin\n", text_psm6 |-> "K3vin\n"],
     [text |-> "vin: 1HGCM82633A004352\n", text_psm6 |-> "Registration Number: 1234567\n"],
     [text |-> "Vehicle\n", text_psm6 |-> "VEHICLE REGISTRATION\nVIN: 2T1BR32E53A004352\n"]}

Images == [1..Len(rotations) -> Scans]

InitRotate ==
    /\ text = ""
    /\ stage = "image"
    /\ ocr \in {[NoOcr EXCEPT !.image = i] : i \in Images}
    /\ data = EmptyRecord
    /\ missing_fields = <<>>
    /\ OCR_AVAILABLE = TRUE
    /\ outcomes = [d \in {} |-> NoOutcome]
    /\ HandlersIdle

\* The recognition of the rotation just tried has a keyword: best_text is its
\* text, a line break and its text with --psm 6, and the loop breaks.
FoundAt(scan) ==
    [ocr EXCEPT !.tried = Append(ocr.tried, rotations[Len(ocr.tried) + 1]),
                !.best_text = scan.text \o "\n" \o scan.text_psm6,
                !.found = TRUE]

\* It has none: the text with the most content so far is kept.
PassedOver(scan) ==
    [ocr EXCEPT !.tried = Append(ocr.tried, rotations[Len(ocr.tried) + 1]),
                !.best_text = KeepBest(scan.text, ocr.best_text)]

\* One pass of the loop over the rotations.
Recognise ==
    /\ stage = "image"
    /\ ~ocr.found
    /\ Len(ocr.tried) < Len(rotations)
    /\ ocr' = IF HasKeyword(ocr.image[Len(ocr.tried) + 1].text)
              THEN FoundAt(ocr.image[Len(ocr.tried) + 1])
              ELSE PassedOver(ocr.image[Len(ocr.tried) + 1])
    /\ UNCHANGED <<text, stage, data, missing_fields>>
    /\ UNCHANGED <<OCR_AVAILABLE, outcomes, folder, pc, req, calls, vehicle_data, response>>

\* After the loop: text = best_text
UseBest ==
    /\ stage = "image"
    /\ ocr.found \/ Len(ocr.tried) = Len(rotations)
    /\ text' = ocr.best_text
    /\ stage' = "text"
    /\ UNCHANGED <<ocr, data, missing_fields>>
    /\ UNCHANGED <<OCR_AVAILABLE, outcomes, folder, pc, req, calls, vehicle_data, response>>

NextRotate == Recognise \/ UseBest \/ Extract

SpecRotate == InitRotate /\ [][NextRotate]_vars

SpecExtract == InitExtract /\ [][NextExtract]_vars

(***************************************************************************)
(* Properties of the engine                                                *)
(***************************************************************************)
\* extract_apv250_data has returned the record.
Extracted == stage \in {"record", "checked"}

\* extract_apv250_data has just returned the record.
JustExtracted == stage = "record"

\* C4: for every input text, empty, truncated and garbled ones included,
\* extraction finishes without raising, and the caller gets a record and a
\* missing-field report: no text leads to an error outcome.
C4_NeverRaises == stage # "raised"

\* An owner count of more digits than int() converts: the call raised.
C4_CountTooLong ==
    /\ stage = "raised"
    /\ NumOwnersMatch(TextClean(text)).found
    /\ Len(NumOwnersMatch(TextClean(text)).group) > 4300

\* The standard VIN alphabet: digits and upper-case letters other than I, O, Q.
StandardVinChars == Digits \cup (UpperCase \ {"I", "O", "Q"})

StandardVin(V) == Len(V) = 17 /\ AllIn(V, 1, 17, StandardVinChars, TRUE)

\* The 17 characters that follow "VIN: " in the clean document of registration R.
CleanVinOf(t, R) ==
    Slice(t, Len("Registration Number: ") + Len(R) + Len("\nVIN: ") + 1,
             Len("Registration Number: ") + Len(R) + Len("\nVIN: ") + 17)

\* The clean document of R, V (a standard VIN) and Y yields R, Y and stored.
RoundTrips(R, V, Y, stored) ==
    (Extracted /\ text = CleanDocument(R, V, Y) /\ StandardVin(V))
    => /\ Has(data, "registration_number") /\ data["registration_number"] = R
       /\ Has(data, "year") /\ data["year"] = Y
       /\ Has(data, "vin") /\ data["vin"] = stored

\* C5 as stated: a clean document 'Registration Number: R', 'VIN: V', 'Year: Y',
\* with V any 17 characters of the standard VIN alphabet, yields
\* registration_number = R, year = Y and vin = V exactly.
C5_RoundTripExact ==
    \A R \in RegTexts, Y \in YearTexts :
        RoundTrips(R, CleanVinOf(text, R), Y, CleanVinOf(text, R))

\* C5, amended: such a document yields registration_number = R, year = Y, and
\* vin = V with every S replaced by 5 (so vin = V exactly when V holds no S).
C5_RoundTrip ==
    \A R \in RegTexts, Y \in YearTexts :
        RoundTrips(R, CleanVinOf(text, R), Y, Replace(CleanVinOf(text, R), "S", "5"))

\* A clean document whose standard VIN holds an S has been extracted.
C5_CleanExtracted ==
    /\ Extracted
    /\ text = CleanDocument("98765432", Slice("1HGCM82633A004352", 1, 15) \o "S2", "1987")
    /\ data["registration_number"] = "98765432"
    /\ data["year"] = "1987"
    /\ data["vin"] = Slice("1HGCM82633A004352", 1, 15) \o "52"

\* The word VIN, in either case, starts at position p of t (it is not the tail of
\* a longer word).
VinLabelAt(t, p) == LitAtI(t, p, "VIN") /\ Ch(t, p - 1) \notin (Letters \cup Digits)

\* C6: a text that holds no "VIN" label yields a record with no vin entry.
C6_NoLabelNoVin ==
    (Extracted /\ ~\E p \in 1..Len(text) : VinLabelAt(text, p)) => ~Has(data, "vin")

\* The letters "vin" at the end of a name, 17 characters after them: a vin entry.
C6_VinInsideWord ==
    /\ Extracted
    /\ text = "Kevin " \o Slice("1HGCM82633A004352", 1, 15) \o "2A" \o "\n"
    /\ Has(data, "vin")

\* The substitution C7 states, by the character matched.
GlyphFix == [I |-> "1", O |-> "0", S |-> "5", l |-> "1"]

GlyphsFixed(matched, stored) ==
    \A i \in 1..Len(matched) :
        Ch(matched, i) \in DOMAIN GlyphFix => Ch(stored, i) = GlyphFix[Ch(matched, i)]

MatchFixed(match, stored) == match.found => GlyphsFixed(match.group, stored)

\* C7: when a VIN is matched, each I, O, S and lower-case l of the 17 characters
\* matched stands in the stored VIN as 1, 0, 5 and 1 (a lower-case l as 1).
C7_GlyphsCorrected ==
    Extracted => MatchFixed(VinMatch(TextClean(text)), Get(data, "vin"))

\* A lower-case l matched, and stored as the letter L.
C7_LowerCaseL ==
    /\ Extracted
    /\ text = CleanDocument("1234567", Slice("1HGCM82633A004352", 1, 15) \o "2l", "2019")
    /\ data["vin"] = Slice("1HGCM82633A004352", 1, 15) \o "2L"

\* C8: VIN correction is idempotent: the correction (upper-casing and the
\* I/O/S/l substitution) applied to a VIN that the correction produced gives
\* that VIN again.
C8_Idempotent == (Extracted /\ Has(data, "vin")) => FixVin(data["vin"]) = data["vin"]

\* A VIN that the correction changed is stored.
C8_Corrected ==
    /\ Extracted
    /\ text = CleanDocument("1234567", Slice("1HGCM82633A004352", 1, 15) \o "IS", "2019")
    /\ data["vin"] = Slice("1HGCM82633A004352", 1, 15) \o "15"
    /\ FixVin(data["vin"]) = data["vin"]

\* The text of C9 for the count N.
TwoNameLines(N) == "Registered Owner\nSMITH JOHN\nDOE JANE\nNumber of Owners: " \o N

\* C9: from "Registered Owner\nSMITH JOHN\nDOE JANE\nNumber of Owners: N" the record
\* has owner_name = "SMITH JOHN" and owner_name_2 = "DOE JANE" when N = 2, and
\* owner_name but no owner_name_2 when N = 1.
C9_TwoNameLines ==
    /\ (Extracted /\ text = TwoNameLines("2"))
       => Get(data, "owner_name") = "SMITH JOHN" /\ Get(data, "owner_name_2") = "DOE JANE"
    /\ (Extracted /\ text = TwoNameLines("1"))
       => Has(data, "owner_name") /\ ~Has(data, "owner_name_2")

\* The two name lines are taken as one name, and no co-owner is recorded.
C9_OneName ==
    /\ Extracted
    /\ text = TwoNameLines("2")
    /\ data["owner_name"] = "SMITH JOHN\nDOE JANE"
    /\ ~Has(data, "owner_name_2")

\* C10: owner_name_2 is in the record only if a "Number of Owners" count greater
\* than 1 was detected in the text and owner_name is in the record too, on the
\* labelled path and on the surname-list path alike.
C10_CoOwnerOnlyWithCount ==
    (Extracted /\ Has(data, "owner_name_2"))
    => /\ Contains(text, "Number of Owners")
       /\ NumOwnersMatch(TextClean(text)).found
       /\ NumOwners(TextClean(text)) > 1
       /\ Has(data, "owner_name")

\* A co-owner found by the surname list, no "Registered Owner" label in the text.
C10_CoOwnerBySurname ==
    /\ Extracted
    /\ ~OwnerSection(TextClean(text)).found
    /\ Has(data, "owner_name")
    /\ Has(data, "owner_name_2")
    /\ NumOwners(TextClean(text)) = 2

\* The text captured by the first body-style pattern that matches, stripped.
Captured(t) == Strip(BodyFirst(TextClean(t)).group)

\* The eight categories in the order C11 states.
CategoryOrder ==
    <<"SEDAN", "SUV", "TRUCK", "COUPE", "WAGON", "CONVERTIBLE", "HATCHBACK", "VAN">>

\* stored is the first category of the order with a keyword in lowered, or
\* kept, the upper-cased capture, when no category has one.
FirstCategory(lowered, kept, stored) ==
    /\ \A i \in 1..Len(CategoryOrder) :
        (/\ AnyIn(lowered, body_categories[i].keywords)
         /\ \A j \in 1..(i - 1) : ~AnyIn(lowered, body_categories[j].keywords))
        => stored = CategoryOrder[i]
    /\ (\A i \in 1..Len(CategoryOrder) : ~AnyIn(lowered, body_categories[i].keywords))
       => stored = kept

\* The body style of the record is the category of the capture.
CategoryFits(found, captured, record) ==
    found
    => /\ Has(record, "body_style")
       /\ FirstCategory(Lower(captured), Upper(captured), Get(record, "body_style"))
       /\ captured = "4 Door Sedan" => Get(record, "body_style") = "SEDAN"
       /\ captured = "Pick Up" => Get(record, "body_style") = "TRUCK"

CategoryOf(match, record) == CategoryFits(match.found, Strip(match.group), record)

\* C11: the captured body-style text is lower-cased and the categories are
\* tested in the order SEDAN, SUV, TRUCK, COUPE, WAGON, CONVERTIBLE, HATCHBACK,
\* VAN: the stored body style is the first category one of whose keywords is in
\* the text ("4 Door Sedan" gives SEDAN, "Pick Up" gives TRUCK), and the
\* upper-cased capture when no keyword is.
C11_FirstCategoryWins ==
    JustExtracted => CategoryOf(BodyFirst(TextClean(text)), data)

\* A capture with keywords of two categories: the earlier category is stored.
C11_SedanBeforeHatchback ==
    /\ Extracted
    /\ Captured(text) = "4 Door Hatchback"
    /\ data["body_style"] = "SEDAN"

\* A capture of the phrase is stored as style.
StoredFor(match, record, phrase, style) ==
    (match.found /\ Strip(match.group) = phrase) => Get(record, "body_style") = style

\* C12 as stated: a capture of "Roadster Special" is unrecognized, and stored as
\* the upper-cased text "ROADSTER SPECIAL".
C12_RoadsterVerbatim ==
    (Extracted /\ Contains(TextClean(text), "Roadster Special"))
    => StoredFor(BodyFirst(TextClean(text)), data, "Roadster Special", "ROADSTER SPECIAL")

\* C12, amended: "roadster" is a keyword of CONVERTIBLE, so a capture of
\* "Roadster Special" is stored as CONVERTIBLE; a capture with no keyword of any
\* category, as "Limo Special", is stored verbatim, upper-cased.
C12_RoadsterConvertible ==
    /\ (JustExtracted /\ Contains(TextClean(text), "Roadster Special"))
       => StoredFor(BodyFirst(TextClean(text)), data, "Roadster Special", "CONVERTIBLE")
    /\ (JustExtracted /\ Contains(TextClean(text), "Limo Special"))
       => StoredFor(BodyFirst(TextClean(text)), data, "Limo Special", "LIMO SPECIAL")

\* "Roadster Special" after the label, stored as CONVERTIBLE.
C12_RoadsterCaptured ==
    /\ Extracted
    /\ text = "Body Style: Roadster Special\n"
    /\ data["body_style"] = "CONVERTIBLE"

\* The body style of the record comes from the match of a pattern when there
\* is one, else from the VIC code as it stands, else there is none.
FallbackOnly(match, vic, record) ==
    IF match.found
    THEN Get(record, "body_style") = BodyStyleOf(Upper(Strip(match.group)))
    ELSE IF vic.found
    THEN Get(record, "body_style") = vic.group
    ELSE ~Has(record, "body_style")

\* C19: the VIC code is the body style only when none of the three body-style
\* patterns matched, and then it is stored as it stands, unclassified; when a
\* pattern matched, the body style comes from its capture, never from the code.
C19_VicOnlyAsFallback ==
    JustExtracted => FallbackOnly(BodyFirst(TextClean(text)), VicMatch(TextClean(text)), data)

\* No pattern matched, and a VIC code with the keyword of a category in it is
\* stored as it stands.
C19_VicStored ==
    /\ Extracted
    /\ ~BodyFirst(TextClean(text)).found
    /\ Contains(text, "Pick Up")
    /\ Get(data, "body_style") = "SUV4X4"

\* The postal token the city pattern matched, spaces set aside.
PostalToken(t) == RemoveChars(Strip(PostalMatch(TextClean(t)).group2), {" "})

\* The corrections listed for the places of a letter and of a digit.
ListedLetters == ("2" :> "Z") @@ ("5" :> "S") @@ ("0" :> "O") @@ ("1" :> "I")

ListedDigits == ("Z" :> "2") @@ ("S" :> "5") @@ ("O" :> "0") @@ ("I" :> "1")

\* The character the listed map gives for the i-th character of a token: the
\* lowercase l at the place of a digit is 1, any other character is read in
\* upper case.
ListedAt(token, i) ==
    IF i \in {1, 3, 5} THEN MapStr(Upper(Ch(token, i)), ListedLetters)
    ELSE IF Ch(token, i) = "l" THEN "1"
    ELSE MapStr(Upper(Ch(token, i)), ListedDigits)

ListedPostal(token) ==
    ListedAt(token, 1) \o ListedAt(token, 2) \o ListedAt(token, 3) \o " "
    \o ListedAt(token, 4) \o ListedAt(token, 5) \o ListedAt(token, 6)

\* C13: for every 6-character postal token matched, the stored postal code is
\* the token under the listed position map: 2, 5, 0, 1 become Z, S, O, I at the
\* places of a letter; Z, S, O, I and the lowercase l become 2, 5, 0, 1, 1 at
\* the places of a digit; every other character is unchanged.
C13_PositionMap ==
    (Extracted /\ PostalMatch(TextClean(text)).found /\ Len(PostalToken(text)) = 6)
        => Get(data, "owner_postal") = ListedPostal(PostalToken(text))

\* A lowercase l at the place of a digit is stored as L.
C13_LowerCaseLKept ==
    /\ Extracted
    /\ text = "SURREY BC VlH 2C5\n"
    /\ Get(data, "owner_postal") = "VLH 2C5"

\* Three characters of a postal code, a space, three characters.
SpacedForm(postal) ==
    /\ Len(postal) = 7
    /\ Ch(postal, 4) = " "
    /\ \A i \in {1, 2, 3, 5, 6, 7} : Ch(postal, i) \in UpperCase \cup Digits

\* C14: a stored owner_postal always has the form AAA BBB, whatever white space
\* separated the two halves in the text.
C14_AlwaysSpaced ==
    (Extracted /\ Has(data, "owner_postal")) => SpacedForm(data["owner_postal"])

\* Halves separated by a tab are stored with the tab.
C14_TabKept ==
    /\ Extracted
    /\ text = "SURREY BC V3H\t2C5\n"
    /\ Get(data, "owner_postal") = "V3H\t2C5"

\* The match of the fuel pattern in the cleaned text.
FuelMatch(t) ==
    LabelSearch(TextClean(t), {"Fuel Type"}, FALSE, ColonSpace, 0, Letters, 1,
                Unbounded(TextClean(t)))

\* The code the table of the specification gives an uppercased token.
ListedFuelCode(token) ==
    CASE token \in {"GASOLINE", "GAS"} -> "G"
      [] token = "DIESEL" -> "D"
      [] token = "ELECTRIC" -> "E"
      [] token = "HYBRID" -> "L"
      [] token = "PROPANE" -> "P"
      [] token = "NATURAL" -> "N"
      [] OTHER -> "G"

\* The fuel entries of a record fit the match of the fuel pattern.
FuelFits(match, record) ==
    IF match.found
    THEN /\ Get(record, "fuel_code") = ListedFuelCode(Upper(match.group))
         /\ Has(record, "fuel_type")
         /\ Get(record, "fuel_type") = Upper(match.group)
    ELSE Get(record, "fuel_code") = "G" /\ ~Has(record, "fuel_type")

\* C15: in every record produced from text fuel_code is present and one of G, D,
\* E, L, P, N: the table code of the uppercased token after "Fuel Type", G for
\* any other token; fuel_type is the uppercased token exactly when the label
\* matched and is absent when the label is absent.
C15_FuelCode ==
    JustExtracted =>
        /\ Has(data, "fuel_code")
        /\ Get(data, "fuel_code") \in {"G", "D", "E", "L", "P", "N"}
        /\ FuelFits(FuelMatch(text), data)
        /\ (~Contains(text, "Fuel Type") => ~Has(data, "fuel_type"))

\* A fuel the table does not list is stored as fuel_type with the code G.
C15_UnlistedFuel ==
    /\ Extracted
    /\ FuelMatch(text).found
    /\ Get(data, "fuel_type") = "PETROL"
    /\ Get(data, "fuel_code") = "G"

\* A candidate of a field: whether its pattern matched, the value its match
\* gives, and whether the code accepts that value.
Candidate(found, value, accepted) ==
    [found |-> found, value |-> value, accepted |-> accepted]

RegistrationCandidate(match) == Candidate(match.found, match.group, TRUE)

RegistrationCandidates(text_clean) ==
    << RegistrationCandidate(LabelSearch(text_clean, {"Registration Number"}, FALSE,
                                         ColonSpace, 1, Digits, 7, 8)),
       RegistrationCandidate(LabelSearch(text_clean, {"Registration Number"}, FALSE,
                                         ColonSpace, 0, Digits, 7, 8)) >>

VinCandidate(match) == Candidate(match.found, FixVin(match.group), TRUE)

VinCandidates(text_clean) ==
    << VinCandidate(LabelSearch(text_clean, {"VIN"}, TRUE, ColonSpace, 0, VinClass, 17, 17)),
       VinCandidate(LabelSearch(text_clean, {"VIN"}, TRUE, ColonSpace, 0, AlnumClass, 17, 17)) >>

MakeCandidate(match) ==
    Candidate(match.found, MakeOf(match.group), Len(MakeOf(match.group)) >= 2)

MakeCandidates(text_clean) ==
    [i \in 1..Len(make_patterns) |-> MakeCandidate(MakeMatch(text_clean, make_patterns[i]))]

BodyCandidate(match) ==
    Candidate(match.found, BodyStyleOf(Upper(Strip(match.group))), TRUE)

BodyCandidates(text_clean) == [i \in 1..3 |-> BodyCandidate(BodyMatch(text_clean, i))]

LocCandidate(found, street) ==
    Candidate(found, street,
              Len(street) >= 6 /\ Len(street) <= 59 /\ Chars(street) \cap Digits # {})

AddrCandidate(found, street) ==
    Candidate(found, street, Len(street) >= 6 /\ Len(street) <= 59)

LocCandidateOf(match) == LocCandidate(match.found, Upper(Strip(match.group)))

AddrCandidateOf(match) == AddrCandidate(match.found, TrimJunk(Upper(Strip(match.group))))

StreetCandidates(text_clean) ==
    << LocCandidateOf(LocMatch(text_clean)) >>
    \o [i \in 1..Len(addr_patterns) |->
          AddrCandidateOf(AddrMatch(text_clean, addr_patterns[i]))]

\* The first candidate whose pattern matched, and the first whose match is
\* accepted; 0 when there is none.
FirstMatching(candidates) == Min0({i \in 1..Len(candidates) : candidates[i].found})

FirstAccepted(candidates) ==
    Min0({i \in 1..Len(candidates) : candidates[i].found /\ candidates[i].accepted})

\* The value stored under key is the one candidate i gives (i = 0: no claim).
CommitsTo(record, key, candidates, i) ==
    i # 0 => (Has(record, key) /\ Get(record, key) = candidates[i].value)

FirstMatchWins(record, key, candidates) ==
    CommitsTo(record, key, candidates, FirstMatching(candidates))

\* The value stored under key is the one candidate i gives; nothing is stored
\* when no candidate is accepted (i = 0) and the patterns alone fill the field.
AcceptedOrNone(record, key, candidates, i, alone) ==
    IF i = 0 THEN alone => ~Has(record, key)
    ELSE Has(record, key) /\ Get(record, key) = candidates[i].value

FirstAcceptedWins(record, key, candidates, alone) ==
    AcceptedOrNone(record, key, candidates, FirstAccepted(candidates), alone)

\* C16, as stated: for registration number, VIN, make, body style and owner
\* street the stored value comes from the first pattern in priority order that
\* matches the cleaned text, never from a pattern of lower priority.
C16_FirstMatchWins ==
    Extracted =>
        /\ FirstMatchWins(data, "registration_number", RegistrationCandidates(TextClean(text)))
        /\ FirstMatchWins(data, "vin", VinCandidates(TextClean(text)))
        /\ FirstMatchWins(data, "make", MakeCandidates(TextClean(text)))
        /\ FirstMatchWins(data, "body_style", BodyCandidates(TextClean(text)))
        /\ FirstMatchWins(data, "owner_street", StreetCandidates(TextClean(text)))

\* C16, amended: for each of the five fields the stored value comes from the
\* first pattern in priority order whose match is accepted (every match of a
\* registration number, VIN or body style pattern is; a make of 2 letters or
\* more is; a street within the length limits, with a digit after the Location
\* Address label, is), never from a pattern of lower priority; a field none of
\* whose patterns has an accepted match is not stored by its patterns.
C16_FirstAcceptedWins ==
    JustExtracted =>
        /\ FirstAcceptedWins(data, "registration_number",
                             RegistrationCandidates(TextClean(text)), TRUE)
        /\ FirstAcceptedWins(data, "vin", VinCandidates(TextClean(text)), TRUE)
        /\ FirstAcceptedWins(data, "make", MakeCandidates(TextClean(text)), TRUE)
        /\ FirstAcceptedWins(data, "body_style", BodyCandidates(TextClean(text)), FALSE)
        /\ FirstAcceptedWins(data, "owner_street", StreetCandidates(TextClean(text)), TRUE)

\* The first make pattern matches one letter, which is not stored, and the make
\* comes from the third pattern.
C16_RejectedMakePassedOver ==
    /\ Extracted
    /\ text = "Make: X\nmake: Toyota\n"
    /\ MakeMatch(TextClean(text), make_patterns[1]).found
    /\ Get(data, "make") = "TOYOTA"

\* The Location Address capture, stripped and in upper case.
LocCapture(t) == Upper(Strip(LocMatch(TextClean(t)).group))

\* The capture has a digit and between 6 and 59 characters.
StreetValid(street) ==
    /\ Chars(street) \cap Digits # {}
    /\ Len(street) >= 6 /\ Len(street) <= 59

\* The record has the street of the generic templates, or none when they have none.
SameStreet(record, generic) ==
    /\ Has(record, "owner_street") <=> Has(generic, "owner_street")
    /\ Get(record, "owner_street") = Get(generic, "owner_street")

\* C17: every owner_street of the record, from the Location Address label or from
\* a generic template, has a digit and between 6 and 59 characters; a Location
\* Address capture without a digit or outside that length is not stored, and
\* the street is the one the generic templates give.
C17_StreetWithinLimits ==
    JustExtracted =>
        /\ Has(data, "owner_street") => StreetValid(data["owner_street"])
        /\ (LocMatch(TextClean(text)).found /\ ~StreetValid(LocCapture(text)))
              => SameStreet(data, GenericStreet(TextClean(text)))

\* A Location Address capture with no digit is passed over for the street of a
\* generic template.
C17_LocationRefused ==
    /\ Extracted
    /\ text = "Location Address 1: MAIN ST\n99 OAK AVE\n"
    /\ LocCapture(text) = "MAIN ST"
    /\ Get(data, "owner_street") = "99 OAK AVE"

\* The street ends with a blank and a token of n upper-case letters that is not
\* one of the suffix abbreviations.
EndsWithJunk(street, n) ==
    /\ Len(street) > n
    /\ Ch(street, Len(street) - n) = " "
    /\ \A i \in (Len(street) - n + 1)..Len(street) : Ch(street, i) \in UpperCase
    /\ Slice(street, Len(street) - n + 1, Len(street)) \notin {"ST", "RD", "DR", "PL", "CT"}

\* C18: after a street match the trailing token of 1 or 2 letters that is not a
\* known suffix abbreviation is trimmed: no stored owner_street ends with a
\* token of 1 or 2 letters other than ST, RD, DR, PL, CT.
C18_NoJunkAtEnd ==
    (Extracted /\ Has(data, "owner_street"))
        => ~EndsWithJunk(data["owner_street"], 1) /\ ~EndsWithJunk(data["owner_street"], 2)

\* The street after the Location Address label keeps the letter that ends it.
C18_LocationKeepsJunk ==
    /\ Extracted
    /\ text = "Location Address 1: 305-3142 ST. JOHNS ST X\n"
    /\ Get(data, "owner_street") = "305-3142 ST. JOHNS ST X"

\* The names the labelled approach stores for the text.
LabelledNames(t) == OwnerLabelled(TextClean(t), NumOwners(TextClean(t)))

\* The first match of the surname pattern in the cleaned text.
FirstSurname(t) ==
    Leftmost({SurnameAt(TextClean(t), p) : p \in 1..Len(TextClean(t))})

\* A listed surname starts at p and is a token of its own: no letter or digit
\* stands before it and white space stands after it.
OwnToken(s, p) ==
    /\ p = 1 \/ Ch(s, p - 1) \notin Letters \cup Digits
    /\ \E n \in Surnames : LitAt(s, p, n) /\ Ch(s, p + Len(n)) \in WhiteSpace

\* C20: the surname fallback stores a name only when the labelled approach
\* stored no owner_name, and never overwrites a labelled name; the name it
\* stores is an occurrence in the text of a listed surname that stands as its
\* own token, followed by upper-case tokens.
C20_SurnameFallback ==
    Extracted =>
        IF Has(LabelledNames(text), "owner_name")
        THEN Get(data, "owner_name") = LabelledNames(text)["owner_name"]
        ELSE Has(data, "owner_name") =>
                /\ FirstSurname(text).found
                /\ data["owner_name"] = Strip(FirstSurname(text).group)
                /\ OwnToken(TextClean(text), FirstSurname(text).start)

\* The letters MA of MAIN are taken for the surname MA.
C20_StreetTakenForName ==
    /\ Extracted
    /\ text = "Owner copy\n123 MAIN ST\n"
    /\ ~Has(LabelledNames(text), "owner_name")
    /\ Get(data, "owner_name") = "MAIN ST"

\* C24: every key of a record returned by extraction maps to a non-empty
\* string: a field whose extraction yields nothing (a body-style capture of
\* white space, a net-weight capture of separators) is left out of the record.
C24_NoEmptyValue == Extracted => \A k \in DOMAIN data : data[k] # ""

\* A body-style capture of one blank is stored as the empty string.
C24_EmptyBodyStyle ==
    /\ Extracted
    /\ text = "Body Style: \n"
    /\ Has(data, "body_style")
    /\ Get(data, "body_style") = ""

\* The order of the rotations the specification gives.
SearchOrder == <<0, 90, 270, 180>>

\* The text recognised under a rotation has one of the keywords, in any case.
KeywordIn(scan) ==
    \E k \in {"VIN", "REGISTRATION", "VEHICLE"} : Contains(Upper(scan.text), k)

\* The first place in the order whose text has a keyword; 0 when none has.
FirstKeyword(image) == Min0({i \in DOMAIN image : KeywordIn(image[i])})

\* The place of the longest text, the earliest among the longest.
Longest(image) ==
    Min0({i \in DOMAIN image : \A j \in DOMAIN image : Len(image[j].text) <= Len(image[i].text)})

\* The text the search hands to extraction: that of the first rotation with a
\* keyword (its two recognitions, one line after the other), after which no
\* rotation is tried; with no keyword anywhere, the longest text of the four.
SearchResult(image, tried, used, k) ==
    IF k # 0
    THEN Len(tried) = k /\ used = image[k].text \o "\n" \o image[k].text_psm6
    ELSE Len(tried) = Len(SearchOrder) /\ used = image[Longest(image)].text

\* C21: for an image the rotations are tried in the order 0, 90, 270, 180 and the
\* search stops at the first rotation whose recognised text has a keyword (VIN,
\* REGISTRATION or VEHICLE, in any case): no later rotation is tried and the text
\* used for extraction is that rotation's; when no rotation has a keyword the
\* text used is the longest seen, the earliest-tried among the longest.
C21_RotationSearch ==
    /\ ocr.tried = SubSeq(SearchOrder, 1, Len(ocr.tried))
    /\ \A i \in 1..(Len(ocr.tried) - 1) : ~KeywordIn(ocr.image[i])
    /\ stage \in {"text", "record", "raised"}
       => SearchResult(ocr.image, ocr.tried, text, FirstKeyword(ocr.image))

\* The search stopped at rotation 90, whose text has a keyword, and rotation
\* 270, whose text has one too, was not tried.
C21_StoppedAtKeyword ==
    /\ stage = "record"
    /\ ocr.tried = <<0, 90>>
    /\ KeywordIn(ocr.image[2])
    /\ KeywordIn(ocr.image[3])
    /\ text = ocr.image[2].text \o "\n" \o ocr.image[2].text_psm6
    /\ Has(data, "vin")

\* The required fields of C3, each with its label, in the order of the list.
RequiredFields ==
    << [label |-> "VIN", key |-> "vin"],
       [label |-> "Registration Number", key |-> "registration_number"],
       [label |-> "Year", key |-> "year"],
       [label |-> "Make", key |-> "make"],
       [label |-> "Model", key |-> "model"],
       [label |-> "Colour", key |-> "colour"],
       [label |-> "Owner Name", key |-> "owner_name"],
       [label |-> "Owner Street Address", key |-> "owner_street"],
       [label |-> "Owner City", key |-> "owner_city"],
       [label |-> "Owner Postal Code", key |-> "owner_postal"] >>

\* The place of a label in the list (0: it is not a label of the list).
PlaceOf(label) == Min0({i \in 1..Len(RequiredFields) : RequiredFields[i].label = label})

\* report lists the label of a required field exactly when record lacks the
\* field, nothing else, and in the order of the list.
ReportsMissing(report, record) ==
    /\ \A i \in 1..Len(RequiredFields) :
        (\E j \in 1..Len(report) : report[j] = RequiredFields[i].label)
        <=> ~Has(record, RequiredFields[i].key)
    /\ \A j \in 1..Len(report) : PlaceOf(report[j]) > 0
    /\ \A j, k \in 1..Len(report) : j < k => PlaceOf(report[j]) < PlaceOf(report[k])

\* C3: for every record, the missing-field report holds the label of a required
\* field exactly when the field is absent from the record, no label of a field
\* that is present, and the labels in the fixed order of the list.
C3_MissingFieldReport == stage = "checked" => ReportsMissing(missing_fields, data)

\* A certificate with no city and postal code line: the report names those two.
C3_NoPostalCode ==
    /\ stage = "checked"
    /\ Has(data, "owner_street")
    /\ missing_fields = <<"Owner City", "Owner Postal Code">>

(***************************************************************************)
(* The handlers /upload, /process-check and /process                       *)
(***************************************************************************)
\* The documents posted, each the text that reading its file yields.
Blank == ""

RegistrationOnly == Certificate("Registration Number: 1234567\n", "", "")

VinOnly == "VIN: 2T1BR32E53A004352\n"

WholeCertificate ==
    Certificate(FullVehicle, OneOwner, "305-3142 ST. JOHNS ST\nPORT MOODY BC V3H 2C5\n")

NoPostalCode == Certificate(FullVehicle, OneOwner, "12 MAIN ST\n")

GarbledCount == "VIN: 1HGCM82633A004352\nNumber of Owners: " \o Repeat("7", 4301) \o "\n"

UploadTexts ==
    [blank |-> Blank, registration |-> RegistrationOnly, vin |-> VinOnly,
     certificate |-> WholeCertificate, no_postal |-> NoPostalCode,
     garbled_count |-> GarbledCount]

\* extract_apv250_data from `data = {}` on: it raises, or returns the record.
ExtractOutcome(t) ==
    [raises |-> ExtractRaises(t),
     record |-> IF ExtractRaises(t) THEN EmptyRecord ELSE ExtractFields(t)]

\* Its outcome on each of the documents posted.
UploadOutcomes ==
    [blank         |-> ExtractOutcome(Blank),
     registration  |-> ExtractOutcome(RegistrationOnly),
     vin           |-> ExtractOutcome(VinOnly),
     certificate   |-> ExtractOutcome(WholeCertificate),
     no_postal     |-> ExtractOutcome(NoPostalCode),
     garbled_count |-> ExtractOutcome(GarbledCount)]

Unreadable == [NoFile EXCEPT !.kind = "upload"]

PostedFiles ==
    {[Unreadable EXCEPT !.readable = TRUE, !.text = d] : d \in DOMAIN UploadTexts}
    \cup {Unreadable}

\* The requests posted. secure_filename() leaves each of these file names as it is.
Posts ==
    {[route |-> ro, attached |-> TRUE, filename |-> n, file |-> f] :
        ro \in Routes, n \in {"scan.pdf", "photo.JPG"}, f \in PostedFiles}
    \cup {[route |-> ro, attached |-> TRUE, filename |-> n, file |-> Unreadable] :
            ro \in Routes, n \in {"", "notes.txt"}}
    \cup {[NoRequest EXCEPT !.route = ro] : ro \in Routes}

\* The handler of r returns.
Return(r, resp) ==
    /\ response' = [response EXCEPT ![r] = resp]
    /\ pc' = [pc EXCEPT ![r] = "done"]

\* From the checks of the request to file.save(upload_path).
Receive(r) ==
    /\ pc[r] = "idle"
    /\ \E post \in Posts, saved \in BOOLEAN :
        /\ req' = [req EXCEPT ![r] = post]
        /\ IF ~post.attached
           THEN Return(r, Failure(400, "No file uploaded")) /\ UNCHANGED folder
           ELSE IF post.filename = ""
           THEN Return(r, Failure(400, "No file selected")) /\ UNCHANGED folder
           ELSE IF ~EndsWith(Lower(post.filename), allowed_extensions)
           THEN Return(r, Failure(400, "Please upload a PDF or image file")) /\ UNCHANGED folder
           ELSE IF ~saved
           THEN Return(r, Failure(500, "Failed to save file")) /\ UNCHANGED folder
           ELSE /\ folder' = (post.filename :> [post.file EXCEPT !.by = r]) @@ folder
                /\ pc' = [pc EXCEPT ![r] = "saved"]
                /\ UNCHANGED response
    /\ UNCHANGED <<calls, vehicle_data, fixed>>

\* extract_apv250_data raised: the handler's except clause answers 500.
Raised(r, read, error) ==
    /\ calls' = [calls EXCEPT ![r].read = read, ![r].extract = "raised"]
    /\ Return(r, Failure(500, error))
    /\ UNCHANGED vehicle_data

\* extract_apv250_data returned record: the gate of the route. /upload answers at
\* once, the other two routes go on to os.remove(upload_path).
Returned(r, read, record) ==
    /\ calls' = [calls EXCEPT ![r].read = read, ![r].extract = "returned"]
    /\ vehicle_data' = [vehicle_data EXCEPT ![r] = record]
    /\ IF ~GateFails(req[r].route, record)
       THEN pc' = [pc EXCEPT ![r] = "fill"] /\ UNCHANGED response
       ELSE IF req[r].route = "upload"
       THEN Return(r, Failure(400, "Could not extract vehicle data"))
       ELSE pc' = [pc EXCEPT ![r] = "gate_failed"] /\ UNCHANGED response

\* vehicle_data = extract_apv250_data(upload_path), and the gate.
RunExtract(r) ==
    /\ pc[r] = "saved"
    /\ LET name == req[r].filename
       IN  IF EndsWith(Lower(name), image_extensions) /\ ~OCR_AVAILABLE
           THEN Returned(r, "", EmptyRecord)
           ELSE IF name \notin DOMAIN folder \/ ~folder[name].readable
           THEN Raised(r, "", "cannot read the file")
           ELSE IF outcomes[folder[name].text].raises
           THEN Raised(r, folder[name].text, "Exceeds the limit for integer string conversion")
           ELSE Returned(r, folder[name].text, outcomes[folder[name].text].record)
    /\ UNCHANGED <<folder, req, fixed>>

\* os.remove(upload_path): it raises when the file is not there.
Remove(r, resp) ==
    IF req[r].filename \in DOMAIN folder
    THEN /\ folder' = [n \in DOMAIN folder \ {req[r].filename} |-> folder[n]]
         /\ Return(r, resp)
    ELSE /\ Return(r, Failure(500, "No such file"))
         /\ UNCHANGED folder

\* The gate of /process-check or /process failed: os.remove, then 400.
RemoveAndFail(r) ==
    /\ pc[r] = "gate_failed"
    /\ Remove(r, Failure(400, "Could not extract vehicle data"))
    /\ UNCHANGED <<calls, vehicle_data, req, fixed>>

\* fill_apv9t(vehicle_data, output_path, ...): it writes the output, or raises
\* (the template cannot be read, a sale date without two dashes, a failed write).
Fill(r) ==
    /\ pc[r] = "fill"
    /\ calls' = [calls EXCEPT ![r].fill = TRUE]
    /\ \E written \in BOOLEAN :
        IF written
        THEN /\ folder' = (OutputFilename(req[r].route, vehicle_data[r])
                             :> [kind |-> "output", readable |-> TRUE, text |-> "",
                                 by |-> r, data |-> vehicle_data[r]]) @@ folder
             /\ pc' = [pc EXCEPT ![r] = "filled"]
             /\ UNCHANGED response
        ELSE Return(r, Failure(500, "fill_apv9t raised")) /\ UNCHANGED folder
    /\ UNCHANGED <<vehicle_data, req, fixed>>

\* What the route returns once the form is filled and the upload removed.
Success(route, record) ==
    [status |-> 200, error |-> "",
     data |-> IF route = "process" THEN EmptyRecord ELSE record,
     reported |-> route = "process_check",
     missing_fields |-> IF route = "process_check" THEN MissingFields(record) ELSE <<>>,
     download |-> OutputFilename(route, record)]

\* os.remove(upload_path), then the response of the route.
CleanUp(r) ==
    /\ pc[r] = "filled"
    /\ Remove(r, Success(req[r].route, vehicle_data[r]))
    /\ UNCHANGED <<calls, vehicle_data, req, fixed>>

Init ==
    /\ text = ""
    /\ stage = "text"
    /\ ocr = NoOcr
    /\ data = EmptyRecord
    /\ missing_fields = <<>>
    /\ OCR_AVAILABLE \in BOOLEAN
    /\ outcomes = UploadOutcomes
    /\ HandlersIdle

Next ==
    \E r \in Requests :
        \/ Receive(r)
        \/ RunExtract(r)
        \/ RemoveAndFail(r)
        \/ Fill(r)
        \/ CleanUp(r)

Spec == Init /\ [][Next]_vars

(***************************************************************************)
(* Properties of the handlers                                              *)
(***************************************************************************)
\* The record has neither a VIN nor a registration number.
Neither(record) == ~Has(record, "vin") /\ ~Has(record, "registration_number")

\* The handler of r took the record for a failed extraction: it stopped at its
\* gate, and never went on to fill the form.
HardFailure(r) ==
    /\ calls[r].extract = "returned"
    /\ pc[r] = "gate_failed" \/ (pc[r] = "done" /\ ~calls[r].fill)

\* C1: on /upload, /process and /process-check alike, the request is signalled
\* as a hard extraction failure if and only if the record has neither a VIN nor
\* a registration number; a record with a registration number and no VIN is a
\* successful extraction.
C1_FailsIffNeither ==
    \A r \in Requests :
        calls[r].extract = "returned" => (HardFailure(r) <=> Neither(vehicle_data[r]))

\* /upload or /process answered 400 to a record that holds a registration number.
C1_RegistrationRefused ==
    \E r \in Requests :
        /\ req[r].route \in {"upload", "process"}
        /\ calls[r].extract = "returned"
        /\ Has(vehicle_data[r], "registration_number")
        /\ response[r] = Failure(400, "Could not extract vehicle data")

\* C2: when the record has neither a VIN nor a registration number, the handler
\* never calls fill_apv9t for the request and writes no output PDF: it answers
\* with a failure and no form is filled.
C2_NoFillWhenNeither ==
    \A r \in Requests :
        (calls[r].extract = "returned" /\ Neither(vehicle_data[r]))
        => /\ ~calls[r].fill
           /\ pc[r] \notin {"fill", "filled"}
           /\ \A n \in DOMAIN folder : ~(folder[n].kind = "output" /\ folder[n].by = r)
           /\ pc[r] = "done" => response[r].status \in {400, 500}

\* /process-check read a document with neither, and answered with the failure.
C2_FailedBeforeFill ==
    \E r \in Requests :
        /\ req[r].route = "process_check"
        /\ calls[r].read = "blank"
        /\ calls[r].extract = "returned"
        /\ Neither(vehicle_data[r])
        /\ pc[r] = "done"
        /\ ~calls[r].fill
        /\ response[r] = Failure(400, "Could not extract vehicle data")

\* The file r saved is in the upload folder as r saved it.
OwnUploadThere(r) ==
    /\ req[r].filename \in DOMAIN folder
    /\ folder[req[r].filename].kind = "upload"
    /\ folder[req[r].filename].by = r

\* The output the response of r names is in the folder, filled from r's record.
OwnOutput(r) ==
    /\ response[r].download \in DOMAIN folder
    /\ folder[response[r].download].data = vehicle_data[r]

\* C22: two requests do not interfere, whatever the interleaving: the record of
\* each comes from the document it uploaded, its filled output from its own
\* record, and neither fails for want of a file the other replaced or removed.
C22_NoInterference ==
    \A r \in Requests :
        /\ calls[r].read # "" => calls[r].read = req[r].file.text
        /\ (pc[r] = "done" /\ response[r].status = 200) => OwnOutput(r)
        /\ (pc[r] = "done" /\ response[r].error \in {"cannot read the file", "No such file"})
           => ~req[r].file.readable

\* A request extracted the document the other request saved under the same name.
C22_ReadOtherUpload ==
    \E r \in Requests :
        /\ req[r].file.readable
        /\ calls[r].extract = "returned"
        /\ calls[r].read # ""
        /\ calls[r].read # req[r].file.text

\* C23: once a request has saved its upload, the file is no longer in the
\* upload folder when the response is returned, on every path: success, a gate
\* that fails, an error in extraction or in filling the form.
C23_UploadRemoved ==
    \A r \in Requests :
        (pc[r] = "done" /\ calls[r].extract # "none") => ~OwnUploadThere(r)

\* /upload answered 400 at its gate and the file it saved is still there.
C23_UploadLeftBehind ==
    \E r \in Requests :
        /\ req[r].route = "upload"
        /\ pc[r] = "done"
        /\ response[r] = Failure(400, "Could not extract vehicle data")
        /\ OwnUploadThere(r)

====
